---- MODULE Spec2Model ----
(***************************************************************************)
(* News download pipeline: the pagination loop of                          *)
(* NewsDownloader.DownloadAllNewsToFile, the NewsAPIClient.FetchNewsPage   *)
(* call it drives (RateLimiter included), the artifact write and the       *)
(* publish of the artifact's path.                                         *)
(*                                                                         *)
(* Time is counted in milliseconds.  A header value is an integer; NoHdr   *)
(* stands for an absent header and BadHdr for a value strconv rejects.     *)
(***************************************************************************)
EXTENDS Integers, Sequences, FiniteSets, TLC

(***************************************************************************)
(* Bounds of the model.                                                    *)
(***************************************************************************)
MaxResults == 2        \* largest totalResults a response reports
MaxRateLimits == 1     \* 429 answers the provider gives in one run
MaxPageSizeTried == 2  \* largest valid pageSize a request carries
MaxStartPage == 2      \* largest startPage a request carries
MaxCalls == 2          \* FetchNewsPage calls made on one client

\* goroutines calling the Producer, calls each of them makes, and events the
\* handleDeliveryReports goroutine logs
MaxCallers == 2
MaxOps == 2
MaxEvents == 1

\* total results tried from 0 upwards and from math.MaxInt64 downwards
MaxTotalResults == 45
MaxBelowMaxInt == 3

(***************************************************************************)
(* Program constants.                                                      *)
(***************************************************************************)
Second == 1000
Hour == 3600000
InterPageDelay == 500
PublishTimeout == 30000
StatusOK == 200
StatusTooManyRequests == 429
StatusUnauthorized == 401
InitialTotalPages == 1
InitialRemaining == 1000
InitialLimit == 1000
PlentyRemaining == 10
LowRemaining == 5
MaxAllowedPageSize == 100
DefaultDelaySeconds == 60
ZeroTime == 0
StartOfRun == 10000

NoHdr == 0 - 1
BadHdr == 0 - 2

VARIABLES
    pc,              \* where the orchestrator is
    req,             \* the DownloadRequest
    cfg,             \* the configuration value object
    publisher,       \* "nil", "open" or "closed"
    ctxDone,         \* the cancellation token
    now,             \* the clock
    rl,              \* RateLimiter: remaining, limit, resetTime
    currentPage,
    totalPages,
    result,          \* DownloadResult: totalArticles, pagesDownloaded, filePaths, errors
    newsResp,        \* totalResults of the page being persisted
    retryAfter,      \* RetryAfter of the RateLimitError being slept on
    retErr,          \* "running", or the kind of the top-level error ("none": nil)
    retResult,       \* TRUE when the *DownloadResult returned is non-nil
    fetches,         \* history: one record per FetchNewsPage call
    saves,           \* history: pages handed to savePageToFile
    publishes,       \* history: publishFilePath calls (topic, message)
    cancelSeen,      \* history: where the cancellation was observed
    filesAtCancel,   \* history: len(FilePaths) when the token was set
    cancelledAt,     \* history: where the orchestrator was when it was set
    received,        \* client history: the headers of the responses received
    lastFetch,       \* client history: the last FetchNewsPage call and its return
    closed,          \* Producer.closed
    mutex,           \* Producer.mutex: "free" or the goroutine holding it
    handle,          \* Producer.producer, the kafka.Producer handle
    drain,           \* the handleDeliveryReports goroutine
    call,            \* per goroutine: the PublishWithContext or Close call it is in
    inflight,        \* messages produced whose delivery report is still to come
    crashed,         \* TRUE once a goroutine has panicked
    closeReturns,    \* history: the Close calls that have returned
    calc,            \* the page-count computation on machine integers
    gen,             \* a FilePathGenerator, its inputs and what it returned
    env              \* the process environment LoadConfigFromEnv reads

vars == <<pc, req, cfg, publisher, ctxDone, now, rl, currentPage, totalPages,
          result, newsResp, retryAfter, retErr, retResult, fetches, saves,
          publishes, cancelSeen, filesAtCancel, cancelledAt, received,
          lastFetch, closed, mutex, handle, drain, call, inflight, crashed,
          closeReturns, calc, gen, env>>

\* the state of the Producer and of the goroutines using it
producerVars ==
    <<closed, mutex, handle, drain, call, inflight, crashed, closeReturns>>

\* what the orchestrator and the client leave alone
\* the file path generator and the environment
utilVars == <<gen, env>>

auxVars == <<producerVars, calc, utilVars>>

(***************************************************************************)
(* Go's int on a 64-bit build: a two's complement word of four 16-bit      *)
(* limbs, least significant first. Sums wrap modulo 2^64 and the quotient  *)
(* truncates towards zero.                                                 *)
(***************************************************************************)
Limb == 65536

Int64 == [1..4 -> 0..(Limb - 1)]

\* the word of a number below 2^31
FromNat(n) == <<n % Limb, (n \div Limb) % Limb, 0, 0>>

\* math.MaxInt64 - k, for k below 2^16
NearMaxInt64(k) == <<(Limb - 1) - k, Limb - 1, Limb - 1, (Limb \div 2) - 1>>

IsNegative(w) == w[4] >= Limb \div 2

\* a + b with the carry out of the top limb dropped
Add64(a, b) ==
    LET s1 == a[1] + b[1]
        s2 == a[2] + b[2] + (s1 \div Limb)
        s3 == a[3] + b[3] + (s2 \div Limb)
        s4 == a[4] + b[4] + (s3 \div Limb)
    IN  <<s1 % Limb, s2 % Limb, s3 % Limb, s4 % Limb>>

\* -a
Neg64(a) ==
    Add64([i \in 1..4 |-> (Limb - 1) - a[i]], FromNat(1))

\* a - b
Sub64(a, b) == Add64(a, Neg64(b))

\* quotient and remainder of the unsigned word a by d, 1 <= d < 2^15
DivMod64(a, d) ==
    LET t4 == a[4]
        t3 == (t4 % d) * Limb + a[3]
        t2 == (t3 % d) * Limb + a[2]
        t1 == (t2 % d) * Limb + a[1]
    IN  [q |-> <<t1 \div d, t2 \div d, t3 \div d, t4 \div d>>, r |-> t1 % d]

\* a / d as Go computes it for a positive d
Quo64(a, d) ==
    IF IsNegative(a) THEN Neg64(DivMod64(Neg64(a), d).q)
    ELSE DivMod64(a, d).q

\* totalPages = (newsResp.TotalResults + req.PageSize - 1) / req.PageSize
TotalPagesInt64(totalResults, pageSize) ==
    Quo64(Sub64(Add64(totalResults, FromNat(pageSize)), FromNat(1)), pageSize)

\* no path asked of the FilePathGenerator
NoGen ==
    [baseOutputDir |-> <<>>, country |-> "", page |-> 0,
     fixedTime |-> [unix |-> 0, offset |-> 0], fullOutputDir |-> "",
     fullJSONPath |-> "", called |-> FALSE]

\* an environment with none of the variables set
NoEnv ==
    [NEWS_MAX_PAGE_SIZE |-> <<>>, NEWS_BASE_URL |-> "",
     NEWS_RATE_LIMIT_DELAY |-> <<>>, KAFKA_BROKER |-> "", KAFKA_TOPIC |-> "",
     NEWS_TIMEOUT |-> <<>>, NEWS_MAX_RETRIES |-> <<>>, NEWS_OUTPUT_DIR |-> ""]

\* calc before the computation
NoCalc ==
    [totalResults |-> FromNat(0), pageSize |-> 1, totalPages |-> FromNat(0),
     applied |-> FALSE]

(***************************************************************************)
(* The Producer as NewProducer leaves it: open, the mutex free, the        *)
(* handleDeliveryReports goroutine started, no call under way.             *)
(***************************************************************************)
Callers == 1..MaxCallers

NoHolder == 0

NoCall ==
    [pc |-> "idle", op |-> "none", topic |-> "", seq |-> 0, chan |-> "none",
     err |-> "none", waited |-> 0, afterClose |-> FALSE, sawCancel |-> FALSE]

NewProducer ==
    /\ closed = FALSE
    /\ mutex = NoHolder
    /\ handle = [open |-> TRUE, flushes |-> 0, closes |-> 0]
    /\ drain = [state |-> "running", logged |-> 0]
    /\ call = [c \in Callers |-> NoCall]
    /\ inflight = {}
    /\ crashed = FALSE
    /\ closeReturns = 0

\* the Producer and the computation as the orchestrator's runs leave them
AuxInit == NewProducer /\ calc = NoCalc /\ gen = NoGen /\ env = NoEnv

(***************************************************************************)
(* DownloadRequest.Validate                                                *)
(***************************************************************************)
ValidSortBy == {"relevancy", "popularity", "publishedAt"}

\* a validation without the upper limit of the page size
Validate_NoUpperBound(r) ==
    IF r.apiKey = "" THEN "api_key"
    ELSE IF r.country = "" /\ r.query = "" THEN "country/query"
    ELSE IF r.pageSize <= 0 THEN "page_size"
    ELSE IF r.startPage < 1 THEN "start_page"
    ELSE IF r.sortBy # "" /\ r.sortBy \notin ValidSortBy THEN "sort_by"
    ELSE "ok"

Validate(r) ==
    IF r.apiKey = "" THEN "api_key"
    ELSE IF r.country = "" /\ r.query = "" THEN "country/query"
    ELSE IF r.pageSize <= 0 \/ r.pageSize > MaxAllowedPageSize THEN "page_size"
    ELSE IF r.startPage < 1 THEN "start_page"
    ELSE IF r.sortBy # "" /\ r.sortBy \notin ValidSortBy THEN "sort_by"
    ELSE "ok"

BaseRequest ==
    [apiKey |-> "key", country |-> "us", query |-> "", pageSize |-> 1,
     startPage |-> 1, sortBy |-> "publishedAt"]

\* the requests tried: every valid pageSize and startPage within the bounds,
\* and the base request with one field made invalid at a time
Requests ==
    {[BaseRequest EXCEPT !.pageSize = ps, !.startPage = sp] :
        ps \in 1..MaxPageSizeTried, sp \in 1..MaxStartPage}
    \cup {[BaseRequest EXCEPT !.apiKey = ""],
          [BaseRequest EXCEPT !.country = ""],
          [BaseRequest EXCEPT !.pageSize = 0],
          [BaseRequest EXCEPT !.pageSize = MaxAllowedPageSize + 1],
          [BaseRequest EXCEPT !.startPage = 0],
          [BaseRequest EXCEPT !.sortBy = "bogus"]}

DefaultConfig ==
    [maxPageSize |-> 20, baseURL |-> "https://newsapi.org/v2/top-headlines",
     defaultRateLimitDelaySeconds |-> DefaultDelaySeconds,
     kafkaBroker |-> "localhost:9092", kafkaTopic |-> "news_files",
     timeoutSeconds |-> 30, maxRetries |-> 3,
     outputDir |-> "/tmp/news_downloads"]

Configs ==
    {DefaultConfig, [DefaultConfig EXCEPT !.defaultRateLimitDelaySeconds = 0]}

\* Config.Validate: the first failing check returns the error, so a
\* configuration passes when none of the checks fails
Config_Validate(c) ==
    /\ ~(c.maxPageSize <= 0 \/ c.maxPageSize > 100)
    /\ c.baseURL # ""
    /\ ~(c.defaultRateLimitDelaySeconds < 0)
    /\ c.kafkaBroker # ""
    /\ c.kafkaTopic # ""
    /\ ~(c.timeoutSeconds <= 0)
    /\ ~(c.maxRetries < 0)
    /\ c.outputDir # ""

(***************************************************************************)
(* RateLimiter                                                             *)
(***************************************************************************)
\* a limiter that starts with its budget used up
NewRateLimiter_Exhausted(t) ==
    [remaining |-> 0, resetTime |-> t + Hour, limit |-> InitialLimit]

NewRateLimiter(t) ==
    [remaining |-> InitialRemaining, resetTime |-> t + Hour, limit |-> InitialLimit]

\* an update that takes the zero value for a header that is absent
UpdateFromHeaders_Reset(r, h) ==
    [limit     |-> IF h.limit >= 0 THEN h.limit ELSE 0,
     remaining |-> IF h.remaining >= 0 THEN h.remaining ELSE 0,
     resetTime |-> IF h.reset >= 0 THEN h.reset * Second ELSE ZeroTime]

UpdateFromHeaders(r, h) ==
    [limit     |-> IF h.limit >= 0 THEN h.limit ELSE r.limit,
     remaining |-> IF h.remaining >= 0 THEN h.remaining ELSE r.remaining,
     resetTime |-> IF h.reset >= 0 THEN h.reset * Second ELSE r.resetTime]

\* a wait that covers the band between the two thresholds as well
MustWait_Band(r, t) ==
    r.remaining <= PlentyRemaining /\ t < r.resetTime

\* TRUE when WaitIfNeeded enters its select, FALSE when it returns at once
MustWait(r, t) ==
    IF r.remaining > PlentyRemaining THEN FALSE
    ELSE r.remaining <= LowRemaining /\ t < r.resetTime

WaitDuration(r, t) == (r.resetTime - t) + Second

(***************************************************************************)
(* NewsAPIClient                                                           *)
(***************************************************************************)
\* a snapshot that leaves the reset header out
ExtractRateLimits_NoReset(h) ==
    [limit     |-> IF h.limit >= 0 THEN h.limit ELSE 0,
     remaining |-> IF h.remaining >= 0 THEN h.remaining ELSE 0,
     reset     |-> ZeroTime]

ExtractRateLimits(h) ==
    [limit     |-> IF h.limit >= 0 THEN h.limit ELSE 0,
     remaining |-> IF h.remaining >= 0 THEN h.remaining ELSE 0,
     reset     |-> IF h.reset >= 0 THEN h.reset * Second ELSE ZeroTime]

\* a payload judged by its status field alone
IsError_StatusOnly(b) == b.status # "ok"

IsError(b) == b.status # "ok" \/ b.code # ""

\* what FetchNewsPage returns, as one record: kind "ok" is a page, "ratelimit"
\* a *RateLimitError, "apierror" a *NewsAPIError, "error" any other error;
\* hasLimits tells whether the *NewsAPILimits returned is non-nil
NoOutcome ==
    [kind |-> "none", cause |-> "", statusCode |-> 0, code |-> "",
     message |-> "", hasLimits |-> FALSE, retryAfter |-> 0,
     resetTime |-> ZeroTime, remainingCalls |-> 0, totalResults |-> 0]

Nil == [NoOutcome EXCEPT !.kind = "nil"]

\* NewsAPIResponse.ToError: nil when the payload is no error
ToError(b, statusCode) ==
    IF ~IsError(b) THEN Nil
    ELSE [NoOutcome EXCEPT !.kind = "apierror", !.cause = "structured",
                           !.statusCode = statusCode, !.code = b.code,
                           !.message = b.message]

HandleErrorResponse(statusCode, b) ==
    IF ~b.parses
    THEN [NoOutcome EXCEPT !.kind = "apierror", !.cause = "generic",
                           !.statusCode = statusCode,
                           !.message = "HTTP " \o ToString(statusCode) \o ": " \o b.raw]
    ELSE IF ToError(b, statusCode) # Nil
    THEN ToError(b, statusCode)
    ELSE [NoOutcome EXCEPT !.kind = "apierror", !.cause = "fallback",
                           !.statusCode = statusCode,
                           !.message = "HTTP " \o ToString(statusCode)]

\* FetchNewsPage from the return of the Transport on: resp is what the
\* Transport gave, t the clock, c the configuration
Classify(resp, t, c) ==
    LET limits == ExtractRateLimits(resp.hdr) IN
    IF resp.failed
    THEN [NoOutcome EXCEPT !.kind = "error", !.cause = "transport"]
    ELSE IF resp.status = StatusTooManyRequests
    THEN [NoOutcome EXCEPT !.kind = "ratelimit", !.cause = "429",
                           !.statusCode = resp.status, !.hasLimits = TRUE,
                           !.retryAfter = IF t < limits.reset
                                          THEN (limits.reset - t) + Second
                                          ELSE c.defaultRateLimitDelaySeconds * Second,
                           !.resetTime = limits.reset,
                           !.remainingCalls = limits.remaining]
    ELSE IF ~resp.readable
    THEN [NoOutcome EXCEPT !.kind = "error", !.cause = "readbody",
                           !.statusCode = resp.status, !.hasLimits = TRUE]
    ELSE IF resp.status # StatusOK
    THEN HandleErrorResponse(resp.status, resp.body)
    ELSE IF ~resp.body.parses
    THEN [NoOutcome EXCEPT !.kind = "error", !.cause = "unmarshal",
                           !.statusCode = resp.status, !.hasLimits = TRUE]
    ELSE IF IsError(resp.body)
    THEN [ToError(resp.body, resp.status) EXCEPT !.hasLimits = TRUE]
    ELSE [NoOutcome EXCEPT !.kind = "ok", !.statusCode = resp.status,
                           !.hasLimits = TRUE,
                           !.totalResults = resp.body.totalResults]

\* an update made for successful responses only
UpdateOnReturn_OkOnly(r, resp) ==
    IF resp.failed \/ resp.status # StatusOK THEN r
    ELSE UpdateFromHeaders(r, resp.hdr)

\* the RateLimiter once the Transport has returned: UpdateFromHeaders runs on
\* every response, before the status is looked at, and not at all when the
\* Transport returned an error
UpdateOnReturn(r, resp) ==
    IF resp.failed THEN r ELSE UpdateFromHeaders(r, resp.hdr)

(***************************************************************************)
(* What the Transport can answer at time t.                                *)
(***************************************************************************)
NoHeaders == [limit |-> NoHdr, remaining |-> NoHdr, reset |-> NoHdr]

\* header sets tried: none; a low budget with a reset two seconds ahead;
\* an ample budget with a reset in the past; an unparseable budget
Headers(t) ==
    {NoHeaders,
     [limit |-> 100, remaining |-> 3, reset |-> (t \div Second) + 2],
     [limit |-> 100, remaining |-> 50, reset |-> (t \div Second) - 1],
     [limit |-> NoHdr, remaining |-> BadHdr, reset |-> NoHdr]}

Garbage ==
    [parses |-> FALSE, status |-> "", code |-> "", message |-> "",
     totalResults |-> 0, raw |-> "<html>"]

ErrorPayload ==
    [parses |-> TRUE, status |-> "error", code |-> "apiKeyInvalid",
     message |-> "Your API key is invalid or incorrect.", totalResults |-> 0,
     raw |-> "{}"]

OkPayloads ==
    [parses : {TRUE}, status : {"ok"}, code : {""}, message : {""},
     totalResults : 0..MaxResults, raw : {"{}"}]

Bodies ==
    {Garbage, ErrorPayload, [ErrorPayload EXCEPT !.status = "ok"],
     [ErrorPayload EXCEPT !.code = ""]} \cup OkPayloads

TransportFailure ==
    [failed |-> TRUE, status |-> 0, hdr |-> NoHeaders, readable |-> FALSE,
     body |-> Garbage]

Responses(t) ==
    {TransportFailure}
    \cup [failed : {FALSE}, status : {StatusOK}, hdr : Headers(t),
          readable : {TRUE}, body : Bodies]
    \cup [failed : {FALSE}, status : {StatusOK}, hdr : {NoHeaders},
          readable : {FALSE}, body : {Garbage}]
    \cup [failed : {FALSE}, status : {StatusTooManyRequests}, hdr : Headers(t),
          readable : {TRUE}, body : {Garbage}]
    \cup [failed : {FALSE}, status : {StatusUnauthorized}, hdr : {NoHeaders},
          readable : {TRUE}, body : {Garbage, ErrorPayload} \cup OkPayloads]
    \cup [failed : {FALSE}, status : {StatusUnauthorized}, hdr : {NoHeaders},
          readable : {FALSE}, body : {Garbage}]

\* lastFetch before any call, and the record of one call: sent tells whether
\* the request reached the Transport
NoFetch == [sent |-> FALSE, resp |-> TransportFailure, out |-> NoOutcome]

(***************************************************************************)
(* ArtifactWriter: the path is a function of base dir, clock, country and  *)
(* page; the timestamp has second precision.                               *)
(***************************************************************************)
GenerateJSONFilePath(baseOutputDir, country, page, t) ==
    [base |-> baseOutputDir, stamp |-> t \div Second, country |-> country,
     page |-> page]

(***************************************************************************)
(* Orchestrator: NewsDownloader.DownloadAllNewsToFile                      *)
(***************************************************************************)
EmptyResult ==
    [totalArticles |-> 0, pagesDownloaded |-> 0, filePaths |-> <<>>,
     errors |-> <<>>, startTime |-> ZeroTime, endTime |-> ZeroTime,
     duration |-> 0]

\* an entry of result.Errors; statusCode and code are those of the wrapped
\* *NewsAPIError, when the error is one
PageError(page, stage, cause) ==
    [page |-> page, stage |-> stage, cause |-> cause, statusCode |-> 0,
     code |-> ""]

FetchError(page, out) ==
    [PageError(page, "fetch", out.cause) EXCEPT !.statusCode = out.statusCode,
                                                !.code = out.code]

AppendError(res, e) == [res EXCEPT !.errors = Append(@, e)]

RateLimitsSeen == Cardinality({i \in 1..Len(fetches) : fetches[i].outcome = "ratelimit"})

SetLast(log, outcome, calls) ==
    [log EXCEPT ![Len(log)] = [@ EXCEPT !.outcome = outcome, !.calls = calls]]

Init ==
    /\ pc = "start"
    /\ req \in Requests
    /\ cfg \in Configs
    /\ publisher \in {"nil", "open", "closed"}
    /\ ctxDone = FALSE
    /\ now = StartOfRun
    /\ rl = NewRateLimiter(StartOfRun)
    /\ currentPage = 0
    /\ totalPages = 0
    /\ result = EmptyResult
    /\ newsResp = 0
    /\ retryAfter = 0
    /\ retErr = "running"
    /\ retResult = FALSE
    /\ fetches = <<>>
    /\ saves = <<>>
    /\ publishes = <<>>
    /\ cancelSeen = {}
    /\ filesAtCancel = 0
    /\ cancelledAt = "never"
    /\ received = <<>>
    /\ lastFetch = NoFetch
    /\ AuxInit

\* the environment sets the cancellation token
Cancel ==
    /\ pc # "done"
    /\ ~ctxDone
    /\ ctxDone' = TRUE
    /\ filesAtCancel' = Len(result.filePaths)
    /\ cancelledAt' = pc
    /\ UNCHANGED <<pc, req, cfg, publisher, now, rl, currentPage, totalPages,
                   result, newsResp, retryAfter, retErr, retResult, fetches,
                   saves, publishes, cancelSeen, received, lastFetch, auxVars>>

\* return result, fmt.Errorf("download cancelled...")
ReturnCancelled(where) ==
    /\ retErr' = "cancelled"
    /\ retResult' = TRUE
    /\ pc' = "done"
    /\ cancelSeen' = cancelSeen \cup {where}
    /\ UNCHANGED <<req, cfg, publisher, ctxDone, now, rl, currentPage,
                   totalPages, result, newsResp, retryAfter, fetches, saves,
                   publishes, filesAtCancel,
                   cancelledAt, received, lastFetch, auxVars>>

\* validation and the initialisation of the loop's state
Start ==
    /\ pc = "start"
    /\ IF Validate(req) # "ok"
       THEN /\ retErr' = "invalid"
            /\ retResult' = FALSE
            /\ pc' = "done"
            /\ UNCHANGED <<currentPage, totalPages, result>>
       ELSE /\ result' = [EmptyResult EXCEPT !.startTime = now]
            /\ currentPage' = req.startPage
            /\ totalPages' = InitialTotalPages
            /\ pc' = "loop"
            /\ UNCHANGED <<retErr, retResult>>
    /\ UNCHANGED <<req, cfg, publisher, ctxDone, now, rl, newsResp, retryAfter,
                   fetches, saves, publishes, cancelSeen, filesAtCancel,
                   cancelledAt, received, lastFetch, auxVars>>

LoopCondition == currentPage <= totalPages

\* a normal exit that fails when errors were recorded
LoopExit_FailOnErrors ==
    /\ pc = "loop"
    /\ ~LoopCondition
    /\ retErr' = IF Len(result.errors) > 0 THEN "api" ELSE "none"
    /\ retResult' = TRUE
    /\ pc' = "done"
    /\ UNCHANGED <<req, cfg, publisher, ctxDone, now, rl, currentPage,
                   totalPages, result, newsResp, retryAfter, fetches, saves,
                   publishes, cancelSeen, filesAtCancel,
                   cancelledAt, received, lastFetch, auxVars>>

\* the loop condition is false: stamp EndTime and Duration and return
\* result, nil
LoopExit ==
    /\ pc = "loop"
    /\ ~LoopCondition
    /\ result' = [result EXCEPT !.endTime = now,
                                !.duration = now - result.startTime]
    /\ retErr' = "none"
    /\ retResult' = TRUE
    /\ pc' = "done"
    /\ UNCHANGED <<req, cfg, publisher, ctxDone, now, rl, currentPage,
                   totalPages, newsResp, retryAfter, fetches, saves,
                   publishes, cancelSeen, filesAtCancel,
                   cancelledAt, received, lastFetch, auxVars>>

\* select { case <-ctx.Done(): return ...; default: } at the top of the body
LoopCancelled ==
    /\ pc = "loop"
    /\ LoopCondition
    /\ ctxDone
    /\ ReturnCancelled("loophead")

\* FetchNewsPage is called: WaitIfNeeded either returns at once, and the
\* request goes to the Transport, or enters its select
FetchStart ==
    /\ pc = "loop"
    /\ LoopCondition
    /\ ~ctxDone
    /\ IF MustWait(rl, now)
       THEN /\ pc' = "rlwait"
            /\ fetches' = Append(fetches, [page |-> currentPage,
                                          outcome |-> "pending", calls |-> 0])
       ELSE /\ pc' = "transport"
            /\ fetches' = Append(fetches, [page |-> currentPage,
                                          outcome |-> "pending", calls |-> 1])
    /\ UNCHANGED <<req, cfg, publisher, ctxDone, now, rl, currentPage,
                   totalPages, result, newsResp, retryAfter, retErr, retResult,
                   saves, publishes, cancelSeen, filesAtCancel,
                   cancelledAt, received, lastFetch, auxVars>>

\* time.After(waitDuration) fires in WaitIfNeeded; the request is issued
RLWaitElapsed ==
    /\ pc = "rlwait"
    /\ now' = now + WaitDuration(rl, now)
    /\ pc' = "transport"
    /\ fetches' = SetLast(fetches, "pending", 1)
    /\ UNCHANGED <<req, cfg, publisher, ctxDone, rl, currentPage, totalPages,
                   result, newsResp, retryAfter, retErr, retResult, saves,
                   publishes, cancelSeen, filesAtCancel,
                   cancelledAt, received, lastFetch, auxVars>>

(***************************************************************************)
(* What the loop body does with the error FetchNewsPage returned.          *)
(***************************************************************************)
\* a retry that moves on to the next page
HandleRateLimit_Advance(out) ==
    /\ retryAfter' = out.retryAfter
    /\ pc' = "retrysleep"
    /\ currentPage' = currentPage + 1
    /\ UNCHANGED <<totalPages, result, newsResp, retErr, retResult>>

\* *RateLimitError: sleep, then continue with the same page
HandleRateLimit(out) ==
    /\ retryAfter' = out.retryAfter
    /\ pc' = "retrysleep"
    /\ UNCHANGED <<currentPage, totalPages, result, newsResp, retErr, retResult>>

\* a fatal error handled like any other: recorded, the page is skipped
HandleAPIError_Skip(out) ==
    /\ result' = AppendError(result, FetchError(currentPage, out))
    /\ currentPage' = currentPage + 1
    /\ pc' = "loop"
    /\ UNCHANGED <<totalPages, newsResp, retryAfter, retErr, retResult>>

\* *NewsAPIError: recorded, then the run fails
HandleAPIError(out) ==
    /\ result' = AppendError(result, FetchError(currentPage, out))
    /\ retErr' = "api"
    /\ retResult' = TRUE
    /\ pc' = "done"
    /\ UNCHANGED <<currentPage, totalPages, newsResp, retryAfter>>

\* a failure of any kind that ends the run
HandleOtherError_Fatal(out) ==
    /\ result' = AppendError(result, PageError(currentPage, "fetch", out.cause))
    /\ retErr' = "api"
    /\ retResult' = TRUE
    /\ pc' = "done"
    /\ UNCHANGED <<currentPage, totalPages, newsResp, retryAfter>>

\* any other error: recorded, the page is skipped
HandleOtherError(out) ==
    /\ result' = AppendError(result, PageError(currentPage, "fetch", out.cause))
    /\ currentPage' = currentPage + 1
    /\ pc' = "loop"
    /\ UNCHANGED <<totalPages, newsResp, retryAfter, retErr, retResult>>

\* err == nil: on to savePageToFile
HandleSuccess(out) ==
    /\ newsResp' = out.totalResults
    /\ pc' = "save"
    /\ UNCHANGED <<currentPage, totalPages, result, retryAfter, retErr, retResult>>

HandleFetchReturn(out) ==
    IF out.kind = "ratelimit" THEN HandleRateLimit(out)
    ELSE IF out.kind = "apierror" THEN HandleAPIError(out)
    ELSE IF out.kind = "error" THEN HandleOtherError(out)
    ELSE HandleSuccess(out)

RLWaitCancelledError ==
    [NoOutcome EXCEPT !.kind = "error", !.cause = "rlwait_cancelled"]

\* ctx.Done() wins in WaitIfNeeded: FetchNewsPage returns
\* "rate limit wait cancelled" without a request
RLWaitCancelled ==
    /\ pc = "rlwait"
    /\ ctxDone
    /\ fetches' = SetLast(fetches, "error", 0)
    /\ cancelSeen' = cancelSeen \cup {"rlwait"}
    /\ HandleFetchReturn(RLWaitCancelledError)
    /\ UNCHANGED <<req, cfg, publisher, ctxDone, now, rl, saves, publishes,
                   filesAtCancel,
                   cancelledAt, received, lastFetch, auxVars>>

\* the Transport answers; FetchNewsPage classifies; the loop body reacts
FetchReturn ==
    /\ pc = "transport"
    /\ \E resp \in Responses(now) :
         /\ resp.status = StatusTooManyRequests => RateLimitsSeen < MaxRateLimits
         /\ rl' = UpdateOnReturn(rl, resp)
         /\ LET out == Classify(resp, now, cfg) IN
              /\ fetches' = SetLast(fetches, out.kind, 1)
              /\ HandleFetchReturn(out)
    /\ UNCHANGED <<req, cfg, publisher, ctxDone, now, saves, publishes,
                   cancelSeen, filesAtCancel,
                   cancelledAt, received, lastFetch, auxVars>>

\* time.After(rateLimitErr.RetryAfter) fires: continue
RetryElapsed ==
    /\ pc = "retrysleep"
    /\ now' = now + retryAfter
    /\ pc' = "loop"
    /\ UNCHANGED <<req, cfg, publisher, ctxDone, rl, currentPage, totalPages,
                   result, newsResp, retryAfter, retErr, retResult, fetches,
                   saves, publishes, cancelSeen, filesAtCancel,
                   cancelledAt, received, lastFetch, auxVars>>

RetryCancelled ==
    /\ pc = "retrysleep"
    /\ ctxDone
    /\ ReturnCancelled("retrysleep")

(***************************************************************************)
(* Persisting and publishing the fetched page.                             *)
(***************************************************************************)
SaveOutcomes == {"ok", "create directory", "marshal JSON", "write file"}

\* a failed write that is counted as a downloaded page
HandleSaveError_Counted(o) ==
    /\ result' = [AppendError(result, PageError(currentPage, "save", o))
                    EXCEPT !.pagesDownloaded = @ + 1]
    /\ currentPage' = currentPage + 1
    /\ pc' = "loop"

\* savePageToFile failed: recorded, the page is skipped
HandleSaveError(o) ==
    /\ result' = AppendError(result, PageError(currentPage, "save", o))
    /\ currentPage' = currentPage + 1
    /\ pc' = "loop"

\* a path that is appended without being counted
HandleSaveOk_NoCount(path) ==
    /\ result' = [result EXCEPT !.filePaths = Append(@, path)]
    /\ pc' = "publish"
    /\ UNCHANGED currentPage

\* savePageToFile returned the path: it is appended and counted
HandleSaveOk(path) ==
    /\ result' = [result EXCEPT !.filePaths = Append(@, path),
                                !.pagesDownloaded = @ + 1]
    /\ pc' = "publish"
    /\ UNCHANGED currentPage

\* savePageToFile and what the loop body does with its result
SavePage ==
    /\ pc = "save"
    /\ \E o \in SaveOutcomes :
         /\ saves' = Append(saves, [page |-> currentPage, ok |-> o = "ok"])
         /\ IF o # "ok"
            THEN HandleSaveError(o)
            ELSE HandleSaveOk(GenerateJSONFilePath(cfg.outputDir, req.country,
                                                   currentPage, now))
    /\ UNCHANGED <<req, cfg, publisher, ctxDone, now, rl, totalPages, newsResp,
                   retryAfter, retErr, retResult, fetches, publishes,
                   cancelSeen, filesAtCancel,
                   cancelledAt, received, lastFetch, auxVars>>

\* the first path of the result instead of the one just written
LastPath_First == result.filePaths[1]

\* the filePath handed to publishFilePath: the one savePageToFile just returned
LastPath == result.filePaths[Len(result.filePaths)]

\* a publish failure that ends the run
AfterPublish_Abort(err) ==
    IF err # ""
    THEN /\ result' = AppendError(result, PageError(currentPage, "publish", err))
         /\ retErr' = "api"
         /\ retResult' = TRUE
         /\ pc' = "done"
         /\ UNCHANGED <<currentPage, totalPages, newsResp, retryAfter>>
    ELSE /\ totalPages' = IF currentPage = req.startPage
                          THEN (newsResp + req.pageSize - 1) \div req.pageSize
                          ELSE totalPages
         /\ result' = IF currentPage = req.startPage
                      THEN [result EXCEPT !.totalArticles = newsResp]
                      ELSE result
         /\ currentPage' = currentPage + 1
         /\ pc' = IF currentPage + 1 <= totalPages' THEN "delay" ELSE "loop"
         /\ UNCHANGED <<newsResp, retryAfter, retErr, retResult>>

\* a loop body that ends in the inter-page delay whether or not a page
\* remains
AfterPublish_AlwaysDelay(err) ==
    LET first == currentPage = req.startPage
        pages == IF first
                 THEN (newsResp + req.pageSize - 1) \div req.pageSize
                 ELSE totalPages
        res1  == IF err # ""
                 THEN AppendError(result, PageError(currentPage, "publish", err))
                 ELSE result
    IN  /\ result' = IF first THEN [res1 EXCEPT !.totalArticles = newsResp] ELSE res1
        /\ totalPages' = pages
        /\ currentPage' = currentPage + 1
        /\ pc' = "delay"
        /\ UNCHANGED <<newsResp, retryAfter, retErr, retResult>>

\* a loop body that ends without the increment of currentPage
AfterPublish_Stay(err) ==
    LET first == currentPage = req.startPage
        pages == IF first
                 THEN (newsResp + req.pageSize - 1) \div req.pageSize
                 ELSE totalPages
        res1  == IF err # ""
                 THEN AppendError(result, PageError(currentPage, "publish", err))
                 ELSE result
    IN  /\ result' = IF first THEN [res1 EXCEPT !.totalArticles = newsResp] ELSE res1
        /\ totalPages' = pages
        /\ currentPage' = currentPage
        /\ pc' = IF currentPage <= pages THEN "delay" ELSE "loop"
        /\ UNCHANGED <<newsResp, retryAfter, retErr, retResult>>

\* the rest of the loop body once publishFilePath has returned err
\* ("" for nil): record the failure, update the totals on the first page,
\* advance, and enter the inter-page delay when a page remains
AfterPublish(err) ==
    LET first == currentPage = req.startPage
        pages == IF first
                 THEN (newsResp + req.pageSize - 1) \div req.pageSize
                 ELSE totalPages
        res1  == IF err # ""
                 THEN AppendError(result, PageError(currentPage, "publish", err))
                 ELSE result
    IN  /\ result' = IF first THEN [res1 EXCEPT !.totalArticles = newsResp] ELSE res1
        /\ totalPages' = pages
        /\ currentPage' = currentPage + 1
        /\ pc' = IF currentPage + 1 <= pages THEN "delay" ELSE "loop"
        /\ UNCHANGED <<newsResp, retryAfter, retErr, retResult>>

\* publishFilePath up to the select of PublishWithContext: a nil publisher,
\* a closed producer and a failed Produce return an error at once
PublishStart ==
    /\ pc = "publish"
    /\ publishes' = Append(publishes, [page |-> currentPage,
                                       topic |-> cfg.kafkaTopic,
                                       message |-> LastPath])
    /\ \/ /\ publisher = "nil"
          /\ AfterPublish("Kafka publisher not initialized")
       \/ /\ publisher = "closed"
          /\ AfterPublish("producer is closed")
       \/ /\ publisher = "open"
          /\ AfterPublish("failed to produce message")
       \/ /\ publisher = "open"
          /\ pc' = "ackwait"
          /\ UNCHANGED <<currentPage, totalPages, result, newsResp, retryAfter,
                         retErr, retResult>>
    /\ UNCHANGED <<req, cfg, publisher, ctxDone, now, rl, fetches, saves,
                   cancelSeen, filesAtCancel,
                   cancelledAt, received, lastFetch, auxVars>>

\* the delivery report arrives on the call's channel
PublishDelivered ==
    /\ pc = "ackwait"
    /\ \E failed \in BOOLEAN :
         AfterPublish(IF failed THEN "delivery failed" ELSE "")
    /\ UNCHANGED <<req, cfg, publisher, ctxDone, now, rl, fetches, saves,
                   publishes, cancelSeen, filesAtCancel,
                   cancelledAt, received, lastFetch, auxVars>>

\* ctx.Done() wins in PublishWithContext: "publish cancelled"
PublishCancelled ==
    /\ pc = "ackwait"
    /\ ctxDone
    /\ cancelSeen' = cancelSeen \cup {"publish"}
    /\ AfterPublish("publish cancelled")
    /\ UNCHANGED <<req, cfg, publisher, ctxDone, now, rl, fetches, saves,
                   publishes, filesAtCancel,
                   cancelledAt, received, lastFetch, auxVars>>

\* time.After(30 * time.Second) wins
PublishTimedOut ==
    /\ pc = "ackwait"
    /\ now' = now + PublishTimeout
    /\ AfterPublish("publish timeout")
    /\ UNCHANGED <<req, cfg, publisher, ctxDone, rl, fetches, saves, publishes,
                   cancelSeen, filesAtCancel,
                   cancelledAt, received, lastFetch, auxVars>>

\* time.After(500 * time.Millisecond) fires
DelayElapsed ==
    /\ pc = "delay"
    /\ now' = now + InterPageDelay
    /\ pc' = "loop"
    /\ UNCHANGED <<req, cfg, publisher, ctxDone, rl, currentPage, totalPages,
                   result, newsResp, retryAfter, retErr, retResult, fetches,
                   saves, publishes, cancelSeen, filesAtCancel,
                   cancelledAt, received, lastFetch, auxVars>>

DelayCancelled ==
    /\ pc = "delay"
    /\ ctxDone
    /\ ReturnCancelled("delay")

Next ==
    \/ Cancel
    \/ Start
    \/ LoopExit
    \/ LoopCancelled
    \/ FetchStart
    \/ RLWaitElapsed
    \/ RLWaitCancelled
    \/ FetchReturn
    \/ RetryElapsed
    \/ RetryCancelled
    \/ SavePage
    \/ PublishStart
    \/ PublishDelivered
    \/ PublishCancelled
    \/ PublishTimedOut
    \/ DelayElapsed
    \/ DelayCancelled

Spec == Init /\ [][Next]_vars

TypeOK ==
    /\ pc \in {"start", "loop", "rlwait", "transport", "retrysleep", "save",
               "publish", "ackwait", "delay", "done"}
    /\ retErr \in {"running", "none", "invalid", "api", "cancelled"}
    /\ currentPage \in Nat /\ totalPages \in Nat

(***************************************************************************)
(* One NewsAPIClient on its own: FetchNewsPage is called MaxCalls times,   *)
(* for pages 1, 2, ..., on a client just constructed, with every           *)
(* combination of rate-limit headers in the answers.                       *)
(***************************************************************************)
orchestratorVars ==
    <<req, cfg, publisher, totalPages, result, newsResp, retryAfter, retErr,
      retResult, fetches, saves, publishes, cancelSeen, filesAtCancel,
      cancelledAt>>

\* each header absent, unparseable or present; remaining on both sides of
\* the two thresholds of WaitIfNeeded; the reset before and after the clock
WideHeaders(t) ==
    [limit : {NoHdr, 100},
     remaining : {NoHdr, BadHdr, LowRemaining, LowRemaining + 1,
                  PlentyRemaining + 1},
     reset : {NoHdr, BadHdr, (t \div Second) - 1, (t \div Second) + 2}]

ClientResponses(t) ==
    {TransportFailure}
    \cup [failed : {FALSE}, status : {StatusOK, StatusTooManyRequests},
          hdr : WideHeaders(t), readable : {TRUE},
          body : {[ErrorPayload EXCEPT !.status = "ok", !.code = ""]}]
    \cup [failed : {FALSE}, status : {StatusOK}, hdr : {NoHeaders},
          readable : BOOLEAN, body : Bodies]
    \cup [failed : {FALSE}, status : {StatusUnauthorized}, hdr : Headers(t),
          readable : {TRUE}, body : Bodies]
    \cup [failed : {FALSE}, status : {StatusTooManyRequests}, hdr : Headers(t),
          readable : {TRUE}, body : {Garbage, ErrorPayload}]

ClientInit ==
    /\ pc = "idle"
    /\ req = BaseRequest
    /\ cfg \in Configs
    /\ publisher = "nil"
    /\ ctxDone = FALSE
    /\ now = StartOfRun
    /\ rl = NewRateLimiter(StartOfRun)
    /\ currentPage = 1
    /\ totalPages = 0
    /\ result = EmptyResult
    /\ newsResp = 0
    /\ retryAfter = 0
    /\ retErr = "running"
    /\ retResult = FALSE
    /\ fetches = <<>>
    /\ saves = <<>>
    /\ publishes = <<>>
    /\ cancelSeen = {}
    /\ filesAtCancel = 0
    /\ cancelledAt = "never"
    /\ received = <<>>
    /\ lastFetch = NoFetch
    /\ AuxInit

\* FetchNewsPage is called: WaitIfNeeded returns at once or enters its select
ClientFetchStart ==
    /\ pc = "idle"
    /\ currentPage <= MaxCalls
    /\ pc' = IF MustWait(rl, now) THEN "rlwait" ELSE "transport"
    /\ UNCHANGED <<ctxDone, now, rl, currentPage, received, lastFetch, auxVars>>
    /\ UNCHANGED orchestratorVars

\* time.After(waitDuration) fires in WaitIfNeeded; the request is issued
ClientWaitElapsed ==
    /\ pc = "rlwait"
    /\ now' = now + WaitDuration(rl, now)
    /\ pc' = "transport"
    /\ UNCHANGED <<ctxDone, rl, currentPage, received, lastFetch, auxVars>>
    /\ UNCHANGED orchestratorVars

\* a cancelled wait after which the request is issued all the same
ClientWaitCancelled_Sends ==
    /\ pc = "rlwait"
    /\ ctxDone
    /\ lastFetch' = [NoFetch EXCEPT !.sent = TRUE, !.out = RLWaitCancelledError]
    /\ pc' = "idle"
    /\ currentPage' = currentPage + 1
    /\ UNCHANGED <<ctxDone, now, rl, received>>
    /\ UNCHANGED <<orchestratorVars, auxVars>>

\* ctx.Done() wins in WaitIfNeeded: FetchNewsPage returns
\* "rate limit wait cancelled" without a request
ClientWaitCancelled ==
    /\ pc = "rlwait"
    /\ ctxDone
    /\ lastFetch' = [NoFetch EXCEPT !.out = RLWaitCancelledError]
    /\ pc' = "idle"
    /\ currentPage' = currentPage + 1
    /\ UNCHANGED <<ctxDone, now, rl, received>>
    /\ UNCHANGED <<orchestratorVars, auxVars>>

\* the Transport answers; UpdateFromHeaders; FetchNewsPage classifies and
\* returns
ClientFetchReturn ==
    /\ pc = "transport"
    /\ \E resp \in ClientResponses(now) :
         /\ rl' = UpdateOnReturn(rl, resp)
         /\ received' = IF resp.failed THEN received
                        ELSE Append(received, resp.hdr)
         /\ lastFetch' = [sent |-> TRUE, resp |-> resp,
                          out |-> Classify(resp, now, cfg)]
    /\ pc' = "idle"
    /\ currentPage' = currentPage + 1
    /\ UNCHANGED <<ctxDone, now>>
    /\ UNCHANGED <<orchestratorVars, auxVars>>

ClientNext ==
    \/ Cancel
    \/ ClientFetchStart
    \/ ClientWaitElapsed
    \/ ClientWaitCancelled
    \/ ClientFetchReturn

ClientSpec == ClientInit /\ [][ClientNext]_vars

(***************************************************************************)
(* DownloadAllNewsToFile over requests with valid and invalid fields.      *)
(***************************************************************************)
\* every combination of a present or absent key, country, query and sort
\* order with a page size around the limits and a start page around 1, and
\* the request NewDownloadRequest builds with each sort order and page size
AllRequests ==
    [apiKey : {"", "key"}, country : {"", "us"}, query : {"", "q"},
     pageSize : {0, MaxAllowedPageSize, MaxAllowedPageSize + 1},
     startPage : {0, 1},
     sortBy : {"", "bogus", "publishedAt"}]
    \cup {[BaseRequest EXCEPT !.sortBy = s] : s \in {"", "bogus"} \cup ValidSortBy}
    \cup {[BaseRequest EXCEPT !.pageSize = ps] : ps \in 0..MaxPageSizeTried}

ValidateInit ==
    /\ pc = "start"
    /\ req \in AllRequests
    /\ cfg = DefaultConfig
    /\ publisher = "open"
    /\ ctxDone = FALSE
    /\ now = StartOfRun
    /\ rl = NewRateLimiter(StartOfRun)
    /\ currentPage = 0
    /\ totalPages = 0
    /\ result = EmptyResult
    /\ newsResp = 0
    /\ retryAfter = 0
    /\ retErr = "running"
    /\ retResult = FALSE
    /\ fetches = <<>>
    /\ saves = <<>>
    /\ publishes = <<>>
    /\ cancelSeen = {}
    /\ filesAtCancel = 0
    /\ cancelledAt = "never"
    /\ received = <<>>
    /\ lastFetch = NoFetch
    /\ AuxInit

ValidateSpec == ValidateInit /\ [][Next]_vars

(***************************************************************************)
(* The page count on its own: one computation of totalPages from a         *)
(* totalResults the provider reported and a valid pageSize.                *)
(***************************************************************************)
\* no run and no client call under way
OrchestratorIdle ==
    /\ pc = "idle"
    /\ req = BaseRequest
    /\ cfg = DefaultConfig
    /\ publisher = "open"
    /\ ctxDone = FALSE
    /\ now = StartOfRun
    /\ rl = NewRateLimiter(StartOfRun)
    /\ currentPage = 1
    /\ totalPages = 0
    /\ result = EmptyResult
    /\ newsResp = 0
    /\ retryAfter = 0
    /\ retErr = "running"
    /\ retResult = FALSE
    /\ fetches = <<>>
    /\ saves = <<>>
    /\ publishes = <<>>
    /\ cancelSeen = {}
    /\ filesAtCancel = 0
    /\ cancelledAt = "never"
    /\ received = <<>>
    /\ lastFetch = NoFetch

\* the totalResults a response can carry: the small ones and the largest
\* ones an int holds
TotalResultsTried ==
    {FromNat(n) : n \in 0..MaxTotalResults}
    \cup {NearMaxInt64(k) : k \in 0..MaxBelowMaxInt}

TotalsInit ==
    /\ OrchestratorIdle
    /\ NewProducer
    /\ calc \in [totalResults : TotalResultsTried,
                 pageSize : 1..MaxAllowedPageSize,
                 totalPages : {FromNat(0)},
                 applied : {FALSE}]
    /\ gen = NoGen
    /\ env = NoEnv

\* the assignment to totalPages on the first page
ComputeTotalPages ==
    /\ ~calc.applied
    /\ calc' = [calc EXCEPT
                  !.totalPages = TotalPagesInt64(calc.totalResults, calc.pageSize),
                  !.applied = TRUE]
    /\ UNCHANGED <<pc, ctxDone, now, rl, currentPage, received, lastFetch>>
    /\ UNCHANGED <<orchestratorVars, producerVars, utilVars>>

TotalsNext == ComputeTotalPages

TotalsSpec == TotalsInit /\ [][TotalsNext]_vars

(***************************************************************************)
(* The Producer on its own: MaxCallers goroutines call PublishWithContext  *)
(* and Close on one Producer, MaxOps calls each, under one context; the    *)
(* broker client reports deliveries and the handleDeliveryReports          *)
(* goroutine ranges over Events().                                         *)
(***************************************************************************)
Topics == {"", DefaultConfig.kafkaTopic}

\* what the Producer's methods and goroutines leave alone
nonProducerVars ==
    <<pc, ctxDone, rl, currentPage, received, lastFetch, orchestratorVars, calc,
      utilVars>>

\* the channel values a delivery report leaves: delivered, or failed
Reports == {"ok", "err"}

\* the call of goroutine c once it has returned err: its deliveryChan, if
\* one was made, is closed by the deferred close and no longer referred to
Returned(c, err) ==
    [NoCall EXCEPT !.op = call[c].op, !.seq = call[c].seq, !.err = err]

\* a goroutine calls PublishWithContext(ctx, broker, topic, message)
PublishCall(c) ==
    /\ ~crashed
    /\ call[c].pc = "idle"
    /\ call[c].seq < MaxOps
    /\ \E topic \in Topics :
         call' = [call EXCEPT ![c] =
                    [NoCall EXCEPT !.pc = "lock", !.op = "publish",
                                   !.topic = topic, !.seq = call[c].seq + 1,
                                   !.afterClose = closeReturns > 0,
                                   !.sawCancel = ctxDone]]
    /\ UNCHANGED <<closed, mutex, handle, drain, inflight, crashed,
                   closeReturns>>
    /\ UNCHANGED <<nonProducerVars, now>>

\* a goroutine calls Close()
CloseCall(c) ==
    /\ ~crashed
    /\ call[c].pc = "idle"
    /\ call[c].seq < MaxOps
    /\ call' = [call EXCEPT ![c] =
                  [NoCall EXCEPT !.pc = "lock", !.op = "close",
                                 !.seq = call[c].seq + 1,
                                 !.afterClose = closeReturns > 0]]
    /\ UNCHANGED <<closed, mutex, handle, drain, inflight, crashed,
                   closeReturns>>
    /\ UNCHANGED <<nonProducerVars, now>>

\* a Lock that does not wait for the holder
Lock_NoExclusion(c) ==
    /\ ~crashed
    /\ call[c].pc = "lock"
    /\ mutex' = c
    /\ call' = [call EXCEPT ![c].pc = "locked"]
    /\ UNCHANGED <<closed, handle, drain, inflight, crashed,
                   closeReturns>>
    /\ UNCHANGED <<nonProducerVars, now>>

\* p.mutex.Lock(): the first statement of both methods
Lock(c) ==
    /\ ~crashed
    /\ call[c].pc = "lock"
    /\ mutex = NoHolder
    /\ mutex' = c
    /\ call' = [call EXCEPT ![c].pc = "locked"]
    /\ UNCHANGED <<closed, handle, drain, inflight, crashed,
                   closeReturns>>
    /\ UNCHANGED <<nonProducerVars, now>>

\* a closed check that finds every Producer open
IsClosed_Never == FALSE

\* if p.closed
IsClosed == closed

\* PublishWithContext from the closed check to the call of Produce: a
\* closed Producer and an empty topic return at once
PublishEnter(c) ==
    /\ ~crashed
    /\ call[c].pc = "locked"
    /\ call[c].op = "publish"
    /\ IF IsClosed
       THEN /\ call' = [call EXCEPT ![c] = Returned(c, "producer is closed")]
            /\ mutex' = NoHolder
       ELSE IF call[c].topic = ""
       THEN /\ call' = [call EXCEPT ![c] = Returned(c, "topic cannot be empty")]
            /\ mutex' = NoHolder
       ELSE /\ call' = [call EXCEPT ![c].pc = "produce", ![c].chan = "empty"]
            /\ UNCHANGED mutex
    /\ UNCHANGED <<closed, handle, drain, inflight, crashed,
                   closeReturns>>
    /\ UNCHANGED <<nonProducerVars, now>>

\* p.producer.Produce(msg, deliveryChan): it fails, or queues the message
\* with the call's own deliveryChan and the call enters its select
Produce(c) ==
    /\ ~crashed
    /\ call[c].pc = "produce"
    /\ \E queued \in BOOLEAN :
         /\ IF queued
            THEN /\ inflight' = inflight \cup {<<c, call[c].seq>>}
                 /\ call' = [call EXCEPT ![c].pc = "select"]
                 /\ UNCHANGED mutex
            ELSE /\ call' = [call EXCEPT ![c] =
                               Returned(c, "failed to produce message")]
                 /\ mutex' = NoHolder
                 /\ UNCHANGED inflight
    /\ UNCHANGED <<closed, handle, drain, crashed, closeReturns>>
    /\ UNCHANGED <<nonProducerVars, now>>

\* the broker client reports the delivery of message m on the deliveryChan
\* given to Produce: the waiting call receives it; once the call has
\* returned the channel is closed and the send panics
DeliveryReport(m) ==
    /\ ~crashed
    /\ m \in inflight
    /\ handle.open
    /\ inflight' = inflight \ {m}
    /\ IF call[m[1]].seq = m[2] /\ call[m[1]].chan = "empty"
       THEN /\ \E r \in Reports : call' = [call EXCEPT ![m[1]].chan = r]
            /\ UNCHANGED crashed
       ELSE /\ crashed' = TRUE
            /\ UNCHANGED call
    /\ UNCHANGED <<closed, mutex, handle, drain, closeReturns>>
    /\ UNCHANGED <<nonProducerVars, now>>

\* the select of PublishWithContext takes the delivery report
SelectReport(c) ==
    /\ ~crashed
    /\ call[c].pc = "select"
    /\ call[c].chan \in Reports
    /\ call' = [call EXCEPT ![c] =
                  Returned(c, IF call[c].chan = "err" THEN "delivery failed"
                              ELSE "")]
    /\ mutex' = NoHolder
    /\ UNCHANGED <<closed, handle, drain, inflight, crashed,
                   closeReturns>>
    /\ UNCHANGED <<nonProducerVars, now>>

\* the select takes ctx.Done()
SelectCancelled(c) ==
    /\ ~crashed
    /\ call[c].pc = "select"
    /\ ctxDone
    /\ call' = [call EXCEPT ![c] = Returned(c, "publish cancelled")]
    /\ mutex' = NoHolder
    /\ UNCHANGED <<closed, handle, drain, inflight, crashed,
                   closeReturns>>
    /\ UNCHANGED <<nonProducerVars, now>>

\* the select takes time.After(30 * time.Second): thirty seconds have gone
\* by with no other case ready
SelectTimedOut(c) ==
    /\ ~crashed
    /\ call[c].pc = "select"
    /\ call[c].chan = "empty"
    /\ ~ctxDone
    /\ call' = [call EXCEPT ![c] =
                  [Returned(c, "publish timeout after 30 seconds")
                     EXCEPT !.waited = PublishTimeout]]
    /\ mutex' = NoHolder
    /\ UNCHANGED <<closed, handle, drain, inflight, crashed,
                   closeReturns>>
    /\ UNCHANGED <<nonProducerVars, now>>

\* a Close that does not look at the flag
CloseEnter_NoCheck(c) ==
    /\ ~crashed
    /\ call[c].pc = "locked"
    /\ call[c].op = "close"
    /\ closed' = TRUE
    /\ call' = [call EXCEPT ![c].pc = "flush"]
    /\ UNCHANGED <<mutex, closeReturns>>
    /\ UNCHANGED <<handle, drain, inflight, crashed>>
    /\ UNCHANGED <<nonProducerVars, now>>

\* Close from the closed check: a closed Producer returns nil at once,
\* an open one is marked closed
CloseEnter(c) ==
    /\ ~crashed
    /\ call[c].pc = "locked"
    /\ call[c].op = "close"
    /\ IF closed
       THEN /\ call' = [call EXCEPT ![c] = Returned(c, "")]
            /\ mutex' = NoHolder
            /\ closeReturns' = closeReturns + 1
            /\ UNCHANGED closed
       ELSE /\ closed' = TRUE
            /\ call' = [call EXCEPT ![c].pc = "flush"]
            /\ UNCHANGED <<mutex, closeReturns>>
    /\ UNCHANGED <<handle, drain, inflight, crashed>>
    /\ UNCHANGED <<nonProducerVars, now>>

\* p.producer.Flush(30 * 1000) returns
CloseFlush(c) ==
    /\ ~crashed
    /\ call[c].pc = "flush"
    /\ handle' = [handle EXCEPT !.flushes = @ + 1]
    /\ call' = [call EXCEPT ![c].pc = "hclose"]
    /\ UNCHANGED <<closed, mutex, drain, inflight, crashed,
                   closeReturns>>
    /\ UNCHANGED <<nonProducerVars, now>>

\* p.producer.Close() and the return of Close: the handle is destroyed and
\* its Events channel closed
CloseHandle(c) ==
    /\ ~crashed
    /\ call[c].pc = "hclose"
    /\ handle' = [handle EXCEPT !.open = FALSE, !.closes = @ + 1]
    /\ call' = [call EXCEPT ![c] = Returned(c, "")]
    /\ mutex' = NoHolder
    /\ closeReturns' = closeReturns + 1
    /\ UNCHANGED <<closed, drain, inflight, crashed>>
    /\ UNCHANGED <<nonProducerVars, now>>

\* handleDeliveryReports takes an event from Events() and logs it
DrainEvent ==
    /\ ~crashed
    /\ drain.state = "running"
    /\ handle.open
    /\ drain.logged < MaxEvents
    /\ drain' = [drain EXCEPT !.logged = @ + 1]
    /\ UNCHANGED <<closed, mutex, handle, call, inflight, crashed,
                   closeReturns>>
    /\ UNCHANGED <<nonProducerVars, now>>

\* the range over Events() ends when the channel is closed
DrainExit ==
    /\ ~crashed
    /\ drain.state = "running"
    /\ ~handle.open
    /\ drain' = [drain EXCEPT !.state = "stopped"]
    /\ UNCHANGED <<closed, mutex, handle, call, inflight, crashed,
                   closeReturns>>
    /\ UNCHANGED <<nonProducerVars, now>>

ProducerInit ==
    /\ OrchestratorIdle
    /\ AuxInit

ProducerNext ==
    \/ Cancel
    \/ \E c \in Callers : PublishCall(c)
    \/ \E c \in Callers : CloseCall(c)
    \/ \E c \in Callers : Lock(c)
    \/ \E c \in Callers : PublishEnter(c)
    \/ \E c \in Callers : Produce(c)
    \/ \E m \in Callers \X (1..MaxOps) : DeliveryReport(m)
    \/ \E c \in Callers : SelectReport(c)
    \/ \E c \in Callers : SelectCancelled(c)
    \/ \E c \in Callers : SelectTimedOut(c)
    \/ \E c \in Callers : CloseEnter(c)
    \/ \E c \in Callers : CloseFlush(c)
    \/ \E c \in Callers : CloseHandle(c)
    \/ DrainEvent
    \/ DrainExit

ProducerSpec == ProducerInit /\ [][ProducerNext]_vars

\* the steps goroutine c takes on its own once it is in a call
Step(c) ==
    \/ Lock(c)
    \/ PublishEnter(c)
    \/ Produce(c)
    \/ SelectReport(c)
    \/ SelectCancelled(c)
    \/ SelectTimedOut(c)
    \/ CloseEnter(c)
    \/ CloseFlush(c)
    \/ CloseHandle(c)

\* the scheduler runs every goroutine that can take a step, the timer of a
\* blocked select fires, and a range over a closed channel ends
ProducerFairSpec ==
    /\ ProducerSpec
    /\ \A c \in Callers : WF_vars(Step(c))
    /\ WF_vars(DrainExit)

(***************************************************************************)
(* Derived views of the history.                                           *)
(***************************************************************************)
Done == pc = "done"

Errors == result.errors

FilePaths == result.filePaths

FetchedPages == {fetches[i].page : i \in 1..Len(fetches)}

SavedPages == {saves[i].page : i \in {j \in 1..Len(saves) : saves[j].ok}}

PathPages == {FilePaths[i].page : i \in 1..Len(FilePaths)}

PublishedPages == {publishes[i].page : i \in 1..Len(publishes)}

ErrorsOf(stage) == {i \in 1..Len(Errors) : Errors[i].stage = stage}

\* C1: a rate-limit signal for page p leaves currentPage, errors, filePaths
\* and pagesDownloaded as they are, through the retry sleep as well; the
\* fetch that follows it is for p again, and currentPage is beyond p only
\* when a later fetch of p ended otherwise.
C1_RateLimitRetriesSamePage ==
    /\ [][(pc' = "retrysleep" \/ pc = "retrysleep")
            => /\ currentPage' = currentPage
               /\ result' = result
               /\ totalPages' = totalPages]_vars
    /\ [](\A i \in 1..Len(fetches) :
            fetches[i].outcome = "ratelimit" =>
              /\ i < Len(fetches) => fetches[i + 1].page = fetches[i].page
              /\ currentPage >= fetches[i].page
              /\ currentPage > fetches[i].page =>
                   \E j \in (i + 1)..Len(fetches) :
                      /\ fetches[j].page = fetches[i].page
                      /\ fetches[j].outcome \notin {"ratelimit", "pending"})

C1_Witness ==
    \E i \in 1..Len(fetches) :
       /\ fetches[i].outcome = "ratelimit"
       /\ currentPage > fetches[i].page
       /\ Len(Errors) = 0

\* C2: a structured API error on page k ends the run at once: it is the last
\* fetch, nothing is written or published for page k, no page beyond k is
\* requested, the call returns the (non-nil) result with a top-level error,
\* filePaths and pagesDownloaded hold exactly the pages persisted before k,
\* and nothing happens once the call has returned.
C2_APIErrorAborts ==
    /\ [][pc # "done"]_vars
    /\ [](\A i \in 1..Len(fetches) :
            fetches[i].outcome = "apierror" =>
              /\ i = Len(fetches)
              /\ Done /\ retErr = "api" /\ retResult
              /\ currentPage = fetches[i].page
              /\ \A q \in FetchedPages : q <= currentPage
              /\ currentPage \notin {saves[j].page : j \in 1..Len(saves)}
              /\ currentPage \notin PublishedPages
              /\ PathPages = SavedPages
              /\ \A q \in PathPages : q < currentPage
              /\ result.pagesDownloaded = Cardinality(SavedPages)
              /\ Len(FilePaths) = Cardinality(SavedPages)
              /\ (currentPage = 2 /\ SavedPages = {1})
                    => Len(FilePaths) = 1 /\ result.pagesDownloaded = 1)

C2_Witness ==
    /\ Done /\ retErr = "api"
    /\ currentPage = 2
    /\ SavedPages = {1}
    /\ Len(FilePaths) = 1

PublishFailed == pc \in {"publish", "ackwait"} /\ Len(Errors') > Len(Errors)

\* C3: a failed publish of a written artifact appends exactly one entry to
\* errors and leaves the artifact's path in filePaths and its count in
\* pagesDownloaded; the run is not ended by it but moves to the next page,
\* and a run that returns normally has fetched every page up to totalPages.
C3_PublishFailureContinues ==
    /\ [][PublishFailed =>
            /\ Len(Errors') = Len(Errors) + 1
            /\ Errors'[Len(Errors')].stage = "publish"
            /\ Errors'[Len(Errors')].page = currentPage
            /\ FilePaths' = FilePaths
            /\ LastPath.page = currentPage
            /\ result'.pagesDownloaded = result.pagesDownloaded
            /\ result.pagesDownloaded = Len(FilePaths)
            /\ retErr' = "running"
            /\ pc' \in {"delay", "loop"}
            /\ currentPage' = currentPage + 1
            /\ pc' = "delay" <=> currentPage' <= totalPages']_vars
    /\ [](\A i \in ErrorsOf("publish") :
            /\ Errors[i].page \in PathPages
            /\ retErr = "none" =>
                 \A q \in (Errors[i].page + 1)..totalPages : q \in FetchedPages)

C3_Witness ==
    /\ Done /\ retErr = "none"
    /\ \E i \in ErrorsOf("publish") :
          /\ Errors[i].page = 1
          /\ Errors[i].cause = "delivery failed"
          /\ totalPages = 2
          /\ 2 \in PathPages

FetchFailed ==
    /\ pc \in {"transport", "rlwait"}
    /\ fetches'[Len(fetches')].outcome = "error"

SaveFailed ==
    pc = "save" /\ Len(saves') > Len(saves) /\ ~saves'[Len(saves')].ok

\* C5: a failed savePageToFile appends one entry to errors, advances
\* currentPage by one, appends no path, leaves pagesDownloaded alone,
\* publishes nothing for the page and leaves the run going.
C5_SaveFailureSkipsPage ==
    /\ [][SaveFailed =>
            /\ Errors' = Append(Errors, Errors'[Len(Errors')])
            /\ Errors'[Len(Errors')].stage = "save"
            /\ Errors'[Len(Errors')].page = currentPage
            /\ currentPage' = currentPage + 1
            /\ FilePaths' = FilePaths
            /\ result'.pagesDownloaded = result.pagesDownloaded
            /\ publishes' = publishes
            /\ pc' = "loop"
            /\ retErr' = "running"]_vars
    /\ [](\A i \in ErrorsOf("save") :
            /\ Errors[i].page \notin PathPages
            /\ Errors[i].page \notin PublishedPages
            /\ result.pagesDownloaded = Len(FilePaths))

C5_Witness ==
    /\ pc = "loop"
    /\ currentPage = 3
    /\ PathPages = {1}
    /\ ErrorsOf("save") # {}
    /\ \A i \in ErrorsOf("save") : Errors[i].page = 2 /\ Errors[i].cause = "write file"

LastFetchWasAPIError ==
    Len(fetches) > 0 /\ fetches[Len(fetches)].outcome = "apierror"

ReturnedCancelled == cancelSeen \cap {"loophead", "retrysleep", "delay"} # {}

C7_AtLeastOneFetch ==
    (Done /\ Validate(req) = "ok" /\ ~ctxDone) => Len(fetches) >= 1

CeilDiv(a, b) == CHOOSE n \in 0..a : n * b >= a /\ (n = 0 \/ (n - 1) * b < a)

FirstPageIterationEnds ==
    /\ pc \in {"save", "publish", "ackwait"}
    /\ currentPage = req.startPage
    /\ currentPage' = currentPage + 1

\* C8: the iteration of page startPage whose fetch succeeded ends with
\* totalPages = ceil(totalResults / pageSize) and totalArticles =
\* totalResults, whether or not the write or the publish succeeded; no other
\* step of the loop changes them.
C8_TotalsFromFirstPage ==
    [][/\ FirstPageIterationEnds =>
            /\ totalPages' = CeilDiv(newsResp, req.pageSize)
            /\ result'.totalArticles = newsResp
       /\ (pc # "start" /\ ~FirstPageIterationEnds) =>
            /\ totalPages' = totalPages
            /\ result'.totalArticles = result.totalArticles]_vars

\* C9: a run that has called FetchNewsPage and whose token was set before
\* the loop was left returns a cancellation error, and its filePaths are the
\* ones it had when the token was set (none when no page had completed).
C9_CancelledRunReportsCancellation ==
    (Done /\ Len(fetches) >= 1
          /\ cancelledAt \in {"start", "rlwait", "transport", "retrysleep",
                               "save", "publish", "ackwait", "delay"})
      => /\ retErr = "cancelled"
         /\ Len(FilePaths) = filesAtCancel

SuspensionPoints == {"rlwait", "retrysleep", "delay", "publish"}

\* C10: once the cancellation has been observed at the rate-limiter wait, the
\* retry sleep, the inter-page delay or the publish wait, no further fetch is
\* issued, the cancellation is not recorded as a page's error, and the call
\* returns the result with a cancellation error.
C10_CancellationUnwinds ==
    /\ [][cancelSeen \cap SuspensionPoints # {} => fetches' = fetches]_vars
    /\ []((cancelSeen \cap SuspensionPoints # {}) =>
            /\ \A i \in 1..Len(Errors) :
                  Errors[i].cause \notin {"rlwait_cancelled", "publish cancelled"}
            /\ Done => (retErr = "cancelled" /\ retResult))

StartedCancelled == cancelledAt = "start"

\* C11: an iteration that starts with the token set returns the result with
\* a cancellation error and calls FetchNewsPage no more; a run of a valid
\* request whose token was set before the call has made no fetch, write or
\* publish when it returns, and returns a cancellation error.
C11_LoopHeadCancellation ==
    /\ [][(pc = "loop" /\ LoopCondition /\ ctxDone) =>
            /\ pc' = "done"
            /\ retErr' = "cancelled"
            /\ retResult'
            /\ result' = result
            /\ fetches' = fetches]_vars
    /\ []((Done /\ StartedCancelled /\ Validate(req) = "ok") =>
            /\ retErr = "cancelled"
            /\ retResult
            /\ fetches = <<>>
            /\ saves = <<>>
            /\ publishes = <<>>)

FieldOrder == <<"api_key", "country/query", "page_size", "start_page", "sort_by">>

\* the fields of r that break a rule of the request contract
Violated(r) ==
    {f \in {FieldOrder[i] : i \in 1..Len(FieldOrder)} :
        \/ f = "api_key" /\ r.apiKey = ""
        \/ f = "country/query" /\ r.country = "" /\ r.query = ""
        \/ f = "page_size" /\ (r.pageSize < 1 \/ r.pageSize > 100)
        \/ f = "start_page" /\ r.startPage < 1
        \/ f = "sort_by" /\ r.sortBy # ""
                         /\ r.sortBy \notin {"relevancy", "popularity", "publishedAt"}}

FirstViolated(r) ==
    FieldOrder[CHOOSE i \in 1..Len(FieldOrder) :
                  /\ FieldOrder[i] \in Violated(r)
                  /\ \A j \in 1..(i - 1) : FieldOrder[j] \notin Violated(r)]

\* C12: Validate rejects exactly the requests that break a rule and names
\* the first rule broken; a rejected request makes DownloadAllNewsToFile
\* return an error and no result, with no fetch, write or publish; every
\* other request gets past validation.
C12_ValidationRejectsBeforeNetwork ==
    /\ Validate(req) = "ok" <=> Violated(req) = {}
    /\ Violated(req) # {} => Validate(req) = FirstViolated(req)
    /\ (pc # "start" /\ Violated(req) # {}) =>
          /\ Done /\ retErr = "invalid" /\ ~retResult
          /\ fetches = <<>> /\ saves = <<>> /\ publishes = <<>>
          /\ result = EmptyResult
    /\ (pc # "start" /\ Violated(req) = {}) => retErr # "invalid"

C12_Witness ==
    /\ Done /\ retErr = "invalid"
    /\ req.apiKey = "key" /\ req.country = "us"
    /\ req.pageSize = 101 /\ req.startPage = 0 /\ req.sortBy = "bogus"
    /\ Validate(req) = "page_size"

\* a FetchNewsPage call begins: WaitIfNeeded runs
WaitIfNeededCalled == pc = "idle" /\ pc' # "idle"

\* C13: WaitIfNeeded enters its wait exactly when remaining <= 5 and the
\* reset is still ahead; with remaining > 10, with 5 < remaining <= 10 and
\* with a reset that is not ahead it returns at once, the clock untouched.
\* The wait ends either at resetTime + 1s, and the call goes on without an
\* error, or, once the token is set, with the cancellation error.
C13_WaitOnlyWhenLowAndResetAhead ==
    /\ [][WaitIfNeededCalled =>
            /\ pc' = "rlwait" <=> (rl.remaining <= LowRemaining /\ now < rl.resetTime)
            /\ pc' = "transport" <=>
                  (\/ rl.remaining > PlentyRemaining
                   \/ rl.remaining > LowRemaining /\ rl.remaining <= PlentyRemaining
                   \/ rl.remaining <= LowRemaining /\ now >= rl.resetTime)
            /\ now' = now
            /\ lastFetch' = lastFetch]_vars
    /\ [][(pc = "rlwait" /\ pc' # "rlwait") =>
            \/ /\ pc' = "transport"
               /\ now' = rl.resetTime + Second
               /\ lastFetch' = lastFetch
            \/ /\ ctxDone
               /\ pc' = "idle"
               /\ now' = now
               /\ lastFetch'.out.kind = "error"
               /\ lastFetch'.out.cause = "rlwait_cancelled"]_vars

C13_Witness ==
    /\ pc = "transport"
    /\ currentPage = 2
    /\ rl.remaining = LowRemaining
    /\ now = rl.resetTime + Second
    /\ now > StartOfRun

\* C14: as long as no response has been seen the limiter is the one
\* NewRateLimiter built and a FetchNewsPage call goes to the Transport
\* without a wait.
C14_FirstCallNotDelayed ==
    /\ [][(WaitIfNeededCalled /\ received = <<>>) =>
            /\ pc' = "transport"
            /\ now' = now]_vars
    /\ [](received = <<>> =>
            /\ rl = NewRateLimiter(StartOfRun)
            /\ rl.remaining > PlentyRemaining
            /\ now = StartOfRun)

C14_Witness ==
    /\ pc = "transport"
    /\ currentPage = 1
    /\ received = <<>>
    /\ lastFetch = NoFetch

Carrying(field) == {i \in 1..Len(received) : received[i][field] >= 0}

Latest(S) == CHOOSE i \in S : \A j \in S : j <= i

\* the value a field has after the responses received: the one of the most
\* recent response that carried it, else the one given
LastCarried(field, initial) ==
    IF Carrying(field) = {} THEN initial
    ELSE received[Latest(Carrying(field))][field]

\* C15: UpdateFromHeaders sets each of limit, remaining and resetTime to the
\* value of its header when the response carries a parseable one and leaves
\* it alone otherwise; after any sequence of responses each field holds the
\* value of the most recent response that carried it.
C15_LastWriteWins ==
    /\ [][Len(received') > Len(received) =>
            LET h == received'[Len(received')] IN
              /\ Len(received') = Len(received) + 1
              /\ rl'.limit = IF h.limit >= 0 THEN h.limit ELSE rl.limit
              /\ rl'.remaining = IF h.remaining >= 0 THEN h.remaining
                                 ELSE rl.remaining
              /\ rl'.resetTime = IF h.reset >= 0 THEN h.reset * Second
                                 ELSE rl.resetTime]_vars
    /\ [](/\ rl.limit = LastCarried("limit", InitialLimit)
          /\ rl.remaining = LastCarried("remaining", InitialRemaining)
          /\ rl.resetTime = IF Carrying("reset") = {}
                            THEN StartOfRun + Hour
                            ELSE LastCarried("reset", 0) * Second)

C15_Witness ==
    /\ Len(received) = 2
    /\ received[1].limit = 100 /\ received[1].remaining = LowRemaining
    /\ received[1].reset >= 0
    /\ received[2].limit = NoHdr /\ received[2].remaining = PlentyRemaining + 1
    /\ received[2].reset = BadHdr
    /\ rl.limit = 100 /\ rl.remaining = PlentyRemaining + 1
    /\ rl.resetTime = received[1].reset * Second

\* FetchNewsPage returns from the Transport call
FetchReturned == pc = "transport" /\ pc' = "idle"

\* C16: a 429 response makes FetchNewsPage return a rate-limit signal, never
\* an API error or a page; its retryAfter is the time until the limiter's
\* resetTime plus one second when that resetTime, after the update from this
\* response, is still ahead, and the configured default delay otherwise; its
\* resetTime and remainingCalls are the limiter's resetTime and remaining.
C16_RateLimitSignalFromState ==
    [][(FetchReturned /\ lastFetch'.resp.status = StatusTooManyRequests) =>
         LET out == lastFetch'.out IN
           /\ out.kind = "ratelimit"
           /\ out.retryAfter = IF now < rl'.resetTime
                               THEN (rl'.resetTime - now) + Second
                               ELSE cfg.defaultRateLimitDelaySeconds * Second
           /\ out.resetTime = rl'.resetTime
           /\ out.remainingCalls = rl'.remaining]_vars

\* C16 as the code has it: the signal is built from the headers of the 429
\* response itself, with zero values for a header that is absent or
\* unparseable. retryAfter is the time until the reset this response
\* carries plus one second when that reset is ahead and the configured
\* default delay otherwise; resetTime and remainingCalls equal the limiter's
\* whenever the response carries the header; nothing of the body is used.
C16_RateLimitSignalFromHeaders ==
    [][(FetchReturned /\ lastFetch'.resp.status = StatusTooManyRequests) =>
         LET out == lastFetch'.out
             h   == lastFetch'.resp.hdr
         IN  /\ out.kind = "ratelimit"
             /\ out.hasLimits
             /\ out.resetTime = IF h.reset >= 0 THEN h.reset * Second ELSE ZeroTime
             /\ out.remainingCalls = IF h.remaining >= 0 THEN h.remaining ELSE 0
             /\ out.retryAfter = IF h.reset >= 0 /\ now < h.reset * Second
                                 THEN (h.reset * Second - now) + Second
                                 ELSE cfg.defaultRateLimitDelaySeconds * Second
             /\ h.reset >= 0 => out.resetTime = rl'.resetTime
             /\ h.remaining >= 0 => out.remainingCalls = rl'.remaining
             /\ out.code = "" /\ out.message = "" /\ out.totalResults = 0]_vars

C16_Witness ==
    /\ pc = "idle"
    /\ lastFetch.resp.status = StatusTooManyRequests
    /\ lastFetch.resp.hdr.reset = NoHdr
    /\ lastFetch.resp.body = ErrorPayload
    /\ now < rl.resetTime
    /\ cfg.defaultRateLimitDelaySeconds = DefaultDelaySeconds
    /\ lastFetch.out.kind = "ratelimit"
    /\ lastFetch.out.retryAfter = DefaultDelaySeconds * Second

\* C17: a wait of WaitIfNeeded that the cancellation ends makes FetchNewsPage
\* return the cancellation failure at once, without a request to the
\* Transport and with the limiter as it was.
C17_CancelledWaitSendsNothing ==
    [][(pc = "rlwait" /\ pc' = "idle") =>
         /\ ctxDone
         /\ lastFetch'.out.kind = "error"
         /\ lastFetch'.out.cause = "rlwait_cancelled"
         /\ ~lastFetch'.sent
         /\ rl' = rl
         /\ received' = received
         /\ now' = now]_vars

C17_Witness ==
    /\ pc = "idle"
    /\ ctxDone
    /\ lastFetch.out.cause = "rlwait_cancelled"
    /\ ~lastFetch.sent
    /\ Len(received) = 1
    /\ rl.remaining = LowRemaining

RECURSIVE Fed(_, _)
\* the limiter after UpdateFromHeaders has run on the first n responses
Fed(r, n) ==
    IF n = 0 THEN r ELSE UpdateFromHeaders(Fed(r, n - 1), received[n])

\* C18: every response the Transport gives, whatever its status, has its
\* headers fed to UpdateFromHeaders before FetchNewsPage returns, so the
\* limiter is the result of the updates for all responses received; a
\* Transport failure leaves the limiter as it was.
C18_HeadersFedForEveryResponse ==
    /\ [][FetchReturned =>
            LET resp == lastFetch'.resp IN
              IF resp.failed
              THEN rl' = rl /\ received' = received
              ELSE /\ received' = Append(received, resp.hdr)
                   /\ rl' = UpdateFromHeaders(rl, resp.hdr)]_vars
    /\ [](rl = Fed(NewRateLimiter(StartOfRun), Len(received)))

C18_Witness ==
    /\ pc = "idle"
    /\ Len(received) = 2
    /\ lastFetch.resp.status = StatusUnauthorized
    /\ lastFetch.out.kind = "apierror"
    /\ ~lastFetch.out.hasLimits
    /\ lastFetch.resp.hdr.remaining = 3
    /\ rl.remaining = 3
    /\ received[1].remaining = PlentyRemaining + 1

\* C19: for a status other than 200 and 429, a body that parses as an error
\* payload gives a structured API error with the status code and the
\* payload's code and message; a body that does not parse gives a generic
\* error with the raw status and body text, which is not an API error.
C19_ErrorStatusClassification ==
    [][(/\ FetchReturned
        /\ ~lastFetch'.resp.failed
        /\ lastFetch'.resp.status \notin {StatusOK, StatusTooManyRequests}) =>
         LET resp == lastFetch'.resp
             out  == lastFetch'.out
         IN  /\ (resp.body.parses /\ IsError(resp.body)) =>
                   /\ out.kind = "apierror"
                   /\ out.statusCode = resp.status
                   /\ out.code = resp.body.code
                   /\ out.message = resp.body.message
             /\ ~resp.body.parses =>
                   /\ out.kind = "error"
                   /\ out.statusCode = resp.status]_vars

\* the 200 responses whose payload reports a failure
SelfReportedFailures(t) ==
    {resp \in Responses(t) :
        /\ ~resp.failed /\ resp.readable /\ resp.status = StatusOK
        /\ resp.body.parses
        /\ (resp.body.status # "ok" \/ resp.body.code # "")}

\* C20: whatever 200 response the Transport gives, FetchNewsPage returns a
\* page only when the payload has status "ok" and no code, and returns the
\* API error {200, code, message} for a payload that reports a failure;
\* IsError is false, and ToError nil, exactly for status "ok" with an empty
\* code. A run that gets such an error ends with it: the page is neither
\* written nor published.
C20_SelfReportedFailureAborts ==
    /\ pc = "transport" =>
         \A resp \in Responses(now) :
            LET out == Classify(resp, now, cfg) IN
              /\ resp \in SelfReportedFailures(now) =>
                    /\ out.kind = "apierror"
                    /\ out.statusCode = StatusOK
                    /\ out.code = resp.body.code
                    /\ out.message = resp.body.message
              /\ (out.kind = "ok" /\ resp.body.parses) =>
                    resp.body.status = "ok" /\ resp.body.code = ""
              /\ resp.body.parses =>
                    /\ ~IsError(resp.body) <=>
                          (resp.body.status = "ok" /\ resp.body.code = "")
                    /\ ToError(resp.body, resp.status) = Nil <=>
                          (resp.body.status = "ok" /\ resp.body.code = "")
    /\ \A i \in ErrorsOf("fetch") :
          (Errors[i].cause = "structured" /\ Errors[i].statusCode = StatusOK) =>
             /\ i = Len(Errors)
             /\ Done /\ retErr = "api" /\ retResult
             /\ Errors[i].page \notin {saves[j].page : j \in 1..Len(saves)}
             /\ Errors[i].page \notin PublishedPages
             /\ Errors[i].page \notin PathPages
             /\ fetches[Len(fetches)].page = Errors[i].page

C20_Witness ==
    /\ Done /\ retErr = "api"
    /\ currentPage = 2
    /\ SavedPages = {1}
    /\ PublishedPages = {1}
    /\ Len(Errors) = 1
    /\ Errors[1].page = 2
    /\ Errors[1].statusCode = StatusOK
    /\ Errors[1].code = "apiKeyInvalid"
    /\ Errors[1].cause = "structured"

\* C21: FetchNewsPage returns a rate-limit snapshot on every path on which
\* the Transport gave a response (a page, a 429, a structured API error, a
\* generic error), and returns none only when there was no response: the
\* wait was cancelled or the Transport failed.
C21_SnapshotOnEveryResponse ==
    /\ (lastFetch.sent /\ ~lastFetch.resp.failed) => lastFetch.out.hasLimits
    /\ (~lastFetch.sent \/ lastFetch.resp.failed) => ~lastFetch.out.hasLimits

\* C29: whatever valid configuration the client has, the retry delay of a
\* rate-limit outcome is strictly positive.
C29_RetryAfterPositive ==
    lastFetch.out.kind = "ratelimit" =>
       (Config_Validate(cfg) => lastFetch.out.retryAfter > ZeroTime)

\* C25: publishFilePath is called exactly once for every artifact that was
\* written, with the artifact's path as the message and the configured
\* topic, and never for a page whose write failed: the calls match
\* filePaths one for one (the last path is still to be published while the
\* loop body is between the write and the call), their number is
\* pagesDownloaded, and every message is a member of filePaths.
C25_OnePublishPerArtifact ==
    LET n == Len(publishes)
        k == Len(FilePaths)
    IN  /\ result.pagesDownloaded = k
        /\ n = IF pc = "publish" THEN k - 1 ELSE k
        /\ Done => n = result.pagesDownloaded
        /\ \A i \in 1..n :
              /\ publishes[i].message = FilePaths[i]
              /\ publishes[i].topic = cfg.kafkaTopic
              /\ publishes[i].page \in SavedPages
              /\ \A j \in 1..n : publishes[j].page = publishes[i].page => j = i
        /\ \A i \in 1..Len(saves) :
              ~saves[i].ok => saves[i].page \notin PublishedPages

C25_Witness ==
    /\ Done
    /\ Len(publishes) = 2
    /\ result.pagesDownloaded = 2
    /\ publishes[1].message = FilePaths[1]
    /\ publishes[2].message = FilePaths[2]
    /\ FilePaths[1] # FilePaths[2]
    /\ publishes[2].page = 2

\* the least n with n * d >= w, for a word w >= 0
Ceil64(w, d) ==
    LET dm == DivMod64(w, d)
    IN  IF dm.r = 0 THEN dm.q ELSE Add64(dm.q, FromNat(1))

\* C30: for every totalResults >= 0 and every pageSize in [1, 100] the
\* computed totalPages is the ceiling of totalResults / pageSize; 45 results
\* in pages of 20 give 3 pages and 0 results give 0 pages.
C30_TotalPagesIsCeiling ==
    calc.applied =>
       /\ calc.totalPages = Ceil64(calc.totalResults, calc.pageSize)
       /\ (calc.totalResults = FromNat(45) /\ calc.pageSize = 20) =>
              calc.totalPages = FromNat(3)
       /\ calc.totalResults = FromNat(0) => calc.totalPages = FromNat(0)

\* goroutine c returns from a call in this step
Returns(c) == call[c].pc # "idle" /\ call'[c].pc = "idle"

\* the handleDeliveryReports goroutine is alive
DrainRunning == drain.state = "running" /\ ~crashed

\* Close has been called by some goroutine
CloseCalled == closed \/ \E c \in Callers : call[c].op = "close"

\* goroutine c is between the closed check of PublishWithContext and its
\* return
PastClosedCheck(c) == call[c].pc \in {"produce", "select"}

\* C22: a PublishWithContext whose message was queued eventually returns,
\* with one of four outcomes: nil only when a delivery report without error
\* was on the call's own channel, "delivery failed" for a report with an
\* error, "publish cancelled" when the context is done, and the timeout
\* after thirty seconds; a step of the handleDeliveryReports goroutine
\* changes no call.
C22_PublishReturnsOneOutcome ==
    /\ [][\A c \in Callers :
            (call[c].pc = "select" /\ Returns(c)) =>
               /\ call'[c].err \in {"", "delivery failed", "publish cancelled",
                                    "publish timeout after 30 seconds"}
               /\ call'[c].err = "" => call[c].chan = "ok"
               /\ call'[c].err = "delivery failed" => call[c].chan = "err"
               /\ call'[c].err = "publish cancelled" => ctxDone
               /\ call'[c].err = "publish timeout after 30 seconds" <=>
                     call'[c].waited = PublishTimeout]_vars
    /\ [][drain' # drain => call' = call]_vars
    /\ \A c \in Callers : (call[c].pc = "select") ~> (call[c].pc = "idle")

\* C23: once a Close has returned, every PublishWithContext called
\* afterwards returns "producer is closed" and does not get to Produce.
C23_PublishAfterCloseFails ==
    /\ [](\A c \in Callers :
            (call[c].op = "publish" /\ call[c].afterClose) =>
               ~PastClosedCheck(c))
    /\ [][\A c \in Callers :
            (call[c].op = "publish" /\ call[c].afterClose /\ Returns(c)) =>
               call'[c].err = "producer is closed"]_vars

C23_Witness ==
    /\ closeReturns > 0
    /\ ~handle.open
    /\ \E c \in Callers :
         /\ call[c].pc = "idle"
         /\ call[c].op = "publish"
         /\ call[c].err = "producer is closed"

\* C24: the handle is flushed and closed once, by the first Close; a Close
\* called after one has returned changes nothing and returns nil; every
\* Close returns nil; the closed flag never goes back to false.
C24_CloseIdempotent ==
    /\ [](handle.flushes <= 1 /\ handle.closes <= 1)
    /\ [](closeReturns > 0 =>
            /\ closed /\ ~handle.open
            /\ handle.flushes = 1 /\ handle.closes = 1)
    /\ [][closed => closed']_vars
    /\ [][\A c \in Callers :
            /\ (call[c].op = "close" /\ Returns(c)) => call'[c].err = ""
            /\ (call[c].op = "close" /\ call[c].afterClose
                   /\ call'[c] # call[c]) =>
                  handle' = handle /\ closed' = closed]_vars

C24_Witness ==
    /\ closeReturns = 2
    /\ closed
    /\ handle.flushes = 1
    /\ handle.closes = 1
    /\ \E c \in Callers :
         call[c].pc = "idle" /\ call[c].op = "close" /\ call[c].err = ""

\* C26: the handleDeliveryReports goroutine runs from NewProducer on as
\* long as Close has not been called, ends only when the handle has been
\* closed, and does end once a Close has returned.
C26_DrainRunsUntilClose ==
    /\ [](~CloseCalled => DrainRunning)
    /\ [](drain.state = "stopped" => ~handle.open)
    /\ (closeReturns > 0) ~> (drain.state = "stopped")

\* C27: PublishWithContext and Close exclude each other: at most one
\* goroutine is past its Lock, Produce is never called on a closed handle,
\* and the handle is not flushed or closed while a PublishWithContext is
\* between its closed check and its return.
C27_PublishCloseExclusion ==
    /\ [](\A c, d \in Callers :
            (call[c].pc \notin {"idle", "lock"}
               /\ call[d].pc \notin {"idle", "lock"}) => c = d)
    /\ [](\A c \in Callers : call[c].pc \notin {"idle", "lock"} => mutex = c)
    /\ [](\A c \in Callers : call[c].pc = "produce" => handle.open /\ ~closed)
    /\ [][handle' # handle => ~\E c \in Callers : PastClosedCheck(c)]_vars

C27_Witness ==
    \E c, d \in Callers :
       /\ call[c].pc = "select"
       /\ mutex = c
       /\ call[d].pc = "lock"
       /\ call[d].op = "close"
       /\ handle.open /\ ~closed

\* C28: a PublishWithContext called on an open Producer with a context that
\* is already cancelled returns "publish cancelled", whenever the delivery
\* report arrives.
C28_CancelledContextNeverPublishes ==
    [][\A c \in Callers :
         (call[c].sawCancel /\ PastClosedCheck(c) /\ Returns(c)) =>
            call'[c].err = "publish cancelled"]_vars

IsPrefix(s, t) ==
    /\ Len(s) <= Len(t)
    /\ \A i \in 1..Len(s) : s[i] = t[i]

\* C34: in every state of a run pagesDownloaded is the length of filePaths;
\* no step shortens filePaths, lowers pagesDownloaded or lowers currentPage;
\* the result changes only in steps of the orchestrator, never when the
\* environment sets the cancellation token.
C34_ResultCountersGrow ==
    /\ [](result.pagesDownloaded = Len(result.filePaths))
    /\ [][/\ IsPrefix(result.filePaths, result'.filePaths)
          /\ result'.pagesDownloaded >= result.pagesDownloaded
          /\ currentPage' >= currentPage]_vars
    /\ [][result' # result => (pc' # pc /\ ctxDone' = ctxDone)]_vars

C34_Witness ==
    /\ Done
    /\ retErr = "none"
    /\ result.pagesDownloaded = 2
    /\ Len(result.filePaths) = 2
    /\ currentPage = 3
    /\ Len(saves) = 2

\* the positions of log, a sequence of records with a page, hold strictly
\* increasing page numbers
StrictlyIncreasing(log) ==
    \A i, j \in 1..Len(log) : i < j => log[i].page < log[j].page

\* C35: within one run every page number is written at most once and
\* published at most once, the pages are written in strictly increasing
\* order, and at most one fetch is under way: a fetch is started only when
\* every earlier fetch has returned and every page written has had its
\* publish call, and never for a page below one already fetched; filePaths
\* holds no path twice.
C35_SequentialPages ==
    /\ [](StrictlyIncreasing(saves))
    /\ [](StrictlyIncreasing(publishes))
    /\ [](StrictlyIncreasing(FilePaths))
    /\ [](\A i, j \in 1..Len(FilePaths) : FilePaths[i] = FilePaths[j] => i = j)
    /\ [](\A i \in 1..Len(fetches) :
             /\ fetches[i].outcome = "pending" =>
                   i = Len(fetches) /\ pc \in {"rlwait", "transport"}
             /\ \A j \in 1..Len(fetches) :
                   i < j => fetches[i].page <= fetches[j].page)
    /\ [][Len(fetches') > Len(fetches) =>
            /\ pc = "loop"
            /\ Len(fetches') = Len(fetches) + 1
            /\ \A i \in 1..Len(fetches) : fetches[i].outcome # "pending"
            /\ Len(publishes) = Len(FilePaths)
            /\ \A i \in 1..Len(saves) : saves[i].page < currentPage]_vars

C35_Witness ==
    /\ pc = "transport"
    /\ currentPage = 2
    /\ Len(fetches) = 3
    /\ fetches[1].page = 1 /\ fetches[1].outcome = "ratelimit"
    /\ fetches[2].page = 1 /\ fetches[2].outcome = "ok"
    /\ fetches[3].page = 2 /\ fetches[3].outcome = "pending"
    /\ SavedPages = {1}
    /\ PublishedPages = {1}

\* the iteration of a page that was written ends in this step: the publish
\* call has returned
IterationCompletes ==
    /\ pc \in {"publish", "ackwait"}
    /\ pc' \notin {"publish", "ackwait"}

\* C33: when the iteration of a written page ends, the orchestrator enters
\* the inter-request delay exactly when currentPage, already incremented,
\* is still within totalPages, and goes to the loop head otherwise; the
\* delay lasts InterPageDelay; a cancellation during the delay returns the
\* result as it is, the page just completed included, with a cancellation
\* error; a page skipped after a failed fetch or write is followed by no
\* delay.
C33_DelayOnlyBetweenPages ==
    /\ [][IterationCompletes =>
            /\ currentPage' = currentPage + 1
            /\ pc' = "delay" <=> currentPage' <= totalPages'
            /\ pc' = "loop" <=> currentPage' > totalPages']_vars
    /\ [][(pc # "delay" /\ pc' = "delay") => IterationCompletes]_vars
    /\ [](pc = "delay" =>
            /\ currentPage <= totalPages
            /\ (currentPage - 1) \in PathPages)
    /\ [][(pc = "delay" /\ pc' # "delay") =>
            \/ /\ pc' = "loop"
               /\ now' = now + InterPageDelay
               /\ result' = result
            \/ /\ pc' = "done"
               /\ ctxDone
               /\ retErr' = "cancelled"
               /\ retResult'
               /\ result' = result
               /\ (currentPage - 1) \in PathPages]_vars
    /\ [][(pc \in {"rlwait", "transport", "retrysleep", "save"}) =>
            pc' # "delay"]_vars

C33_Witness ==
    /\ Done
    /\ retErr = "cancelled"
    /\ "delay" \in cancelSeen
    /\ currentPage = 2
    /\ totalPages = 2
    /\ PathPages = {1}
    /\ result.pagesDownloaded = 1

\* the causes of a fetch failure that is neither a rate-limit signal nor an
\* API error: the Transport failed, the body could not be read, the body of
\* a 200 did not parse
NonFatalFetchCauses == {"transport", "readbody", "unmarshal"}

\* entry e of errors records a non-fatal failure of the fetch or of the
\* write of the first page
FirstPageFailure(e) ==
    /\ e.page = req.startPage
    /\ \/ e.stage = "fetch" /\ e.cause \in NonFatalFetchCauses
       \/ e.stage = "save"

\* C37: when the fetch or the write of page startPage fails without ending
\* the run, totalPages keeps its initial value 1; for startPage = 1 the run
\* then makes no further fetch and returns nil with no file path,
\* totalArticles 0 and one entry in errors, whatever number of results the
\* first page reported.
C37_FirstPageFailureEndsRun ==
    /\ [][(Len(Errors') > Len(Errors) /\ FirstPageFailure(Errors'[Len(Errors')])) =>
            /\ totalPages = InitialTotalPages
            /\ totalPages' = InitialTotalPages
            /\ currentPage' = currentPage + 1
            /\ pc' = "loop"
            /\ req.startPage = 1 => ~LoopCondition']_vars
    /\ []((req.startPage = 1 /\ \E i \in 1..Len(Errors) : FirstPageFailure(Errors[i])) =>
            /\ totalPages = InitialTotalPages
            /\ pc \in {"loop", "done"}
            /\ FetchedPages = {1}
            /\ fetches[Len(fetches)].outcome \in {"error", "ok"}
            /\ FilePaths = <<>>
            /\ result.pagesDownloaded = 0
            /\ result.totalArticles = 0
            /\ Len(Errors) = 1
            /\ publishes = <<>>
            /\ Done => retErr = "none" /\ retResult)

C37_Witness ==
    /\ Done
    /\ retErr = "none"
    /\ req.startPage = 1
    /\ newsResp = 2
    /\ req.pageSize = 1
    /\ Len(Errors) = 1
    /\ Errors[1].stage = "save"
    /\ FilePaths = <<>>
    /\ totalPages = InitialTotalPages
    /\ Len(fetches) = 1

\* the responses with a status other than 200 and 429
ErrorStatusResponses(t) ==
    {resp \in Responses(t) :
        ~resp.failed /\ resp.status \notin {StatusOK, StatusTooManyRequests}}

\* C38: every response with a status other than 200 and 429 is returned by
\* FetchNewsPage as the fatal kind of error, whether or not its body parses
\* as an error payload, and ends the run; the error a run aborts on is the
\* last entry of result.errors.
C38_ErrorStatusAborts ==
    /\ pc = "transport" =>
         \A resp \in ErrorStatusResponses(now) :
            Classify(resp, now, cfg).kind = "apierror"
    /\ \A i \in 1..Len(fetches) :
          fetches[i].outcome = "apierror" =>
             /\ i = Len(fetches)
             /\ Done /\ retErr = "api" /\ retResult
             /\ Len(Errors) >= 1
             /\ Errors[Len(Errors)].stage = "fetch"
             /\ Errors[Len(Errors)].page = fetches[i].page
             /\ Errors[Len(Errors)].cause \in {"structured", "generic", "fallback"}
    /\ (Done /\ retErr = "api") =>
          /\ fetches # <<>>
          /\ fetches[Len(fetches)].outcome = "apierror"

\* C39: WaitIfNeeded suspends only towards a reset time that a response
\* header supplied: while no response received by the client carried an
\* X-RateLimit-Reset header, no FetchNewsPage call waits in the RateLimiter.
C39_WaitsOnlyForSuppliedReset ==
    pc = "rlwait" =>
       \E i \in 1..Len(received) : received[i].reset # NoHdr

(***************************************************************************)
(* FilePathGenerator on its own: one GenerateJSONFilePath call on a        *)
(* generator whose time provider holds a fixed time.  A time is an instant *)
(* in Unix seconds with the offset of its location; a path is the sequence *)
(* of its segments between slashes, so that "/tmp/x" is <<"", "tmp", "x">>.*)
(***************************************************************************)
MaxPage == 3

SecondsPerDay == 86400

\* time.Time's civil date and clock in its own location
Civil(t) ==
    LET local == t.unix + t.offset
        days  == local \div SecondsPerDay
        secs  == local % SecondsPerDay
        z     == days + 719468
        era   == z \div 146097
        doe   == z - era * 146097
        yoe   == (doe - doe \div 1460 + doe \div 36524 - doe \div 146096) \div 365
        doy   == doe - (365 * yoe + yoe \div 4 - yoe \div 100)
        mp    == (5 * doy + 2) \div 153
        m     == IF mp < 10 THEN mp + 3 ELSE mp - 9
    IN  [year   |-> yoe + era * 400 + (IF m <= 2 THEN 1 ELSE 0),
         month  |-> m,
         day    |-> doy - (153 * mp + 2) \div 5 + 1,
         hour   |-> secs \div 3600,
         minute |-> (secs % 3600) \div 60,
         second |-> secs % 60]

\* a layout element of two digits that drops the leading zero
Pad2_NoPad(n) == ToString(n)

\* the two-digit layout elements 01, 02, 15, 04, 05
Pad2(n) == IF n < 10 THEN "0" \o ToString(n) ELSE ToString(n)

\* the layout element 2006
Pad4(n) ==
    IF n < 10 THEN "000" \o ToString(n)
    ELSE IF n < 100 THEN "00" \o ToString(n)
    ELSE IF n < 1000 THEN "0" \o ToString(n)
    ELSE ToString(n)

\* now.Format("2006")
FormatYear(t) == Pad4(Civil(t).year)

\* now.Format("01")
FormatMonth(t) == Pad2(Civil(t).month)

\* now.Format("2006-01-02_15-04-05")
FormatStamp(t) ==
    LET c == Civil(t)
    IN  Pad4(c.year) \o "-" \o Pad2(c.month) \o "-" \o Pad2(c.day) \o "_"
        \o Pad2(c.hour) \o "-" \o Pad2(c.minute) \o "-" \o Pad2(c.second)

\* fmt.Sprintf("%s_%s_page%d.json", stamp, country, page)
Filename(t, country, page) ==
    FormatStamp(t) \o "_" \o country \o "_page" \o ToString(page) \o ".json"

\* the text of a path given by its segments
RECURSIVE PathText(_)
PathText(segs) ==
    IF segs = <<>> THEN ""
    ELSE IF Len(segs) = 1 THEN segs[1]
    ELSE segs[1] \o "/" \o PathText(Tail(segs))

\* filepath.Clean: empty and "." segments go, ".." takes the segment before
\* it with it (at the root it goes alone), the empty path becomes "."
RECURSIVE CleanWalk(_, _, _)
CleanWalk(segs, out, rooted) ==
    IF segs = <<>> THEN out
    ELSE LET seg == Head(segs)
             rest == Tail(segs)
         IN  IF seg \in {"", "."} THEN CleanWalk(rest, out, rooted)
             ELSE IF seg = ".."
             THEN IF out # <<>> /\ out[Len(out)] # ".."
                  THEN CleanWalk(rest, SubSeq(out, 1, Len(out) - 1), rooted)
                  ELSE IF rooted THEN CleanWalk(rest, out, rooted)
                  ELSE CleanWalk(rest, Append(out, ".."), rooted)
             ELSE CleanWalk(rest, Append(out, seg), rooted)

Clean(segs) ==
    LET rooted == Len(segs) >= 2 /\ segs[1] = ""
        out    == CleanWalk(segs, <<>>, rooted)
    IN  IF rooted THEN (IF out = <<>> THEN <<"", "">> ELSE <<"">> \o out)
        ELSE IF out = <<>> THEN <<".">> ELSE out

\* filepath.Join of two elements: empty elements are left out, the rest are
\* joined with a slash and cleaned
Join(a, b) ==
    LET ea == a \in {<<>>, <<"">>}
        eb == b \in {<<>>, <<"">>}
    IN  IF ea /\ eb THEN <<"">>
        ELSE IF ea THEN Clean(b)
        ELSE IF eb THEN Clean(a)
        ELSE Clean(a \o b)

\* GenerateJSONFilePathWithTime: the directory and the full path, as text
GenerateJSONFilePathWithTime(baseOutputDir, country, page, timestamp) ==
    LET yearDir       == FormatYear(timestamp)
        monthDir      == FormatMonth(timestamp)
        filename      == Filename(timestamp, country, page)
        fullOutputDir == Join(Join(baseOutputDir, <<yearDir>>), <<monthDir>>)
        fullJSONPath  == Join(fullOutputDir, <<filename>>)
    IN  [fullOutputDir |-> PathText(fullOutputDir),
         fullJSONPath  |-> PathText(fullJSONPath)]

\* 2025-08-15T12:00:00Z
FixedTime == [unix |-> 1755259200, offset |-> 0]

\* the instants tried: the epoch, a leap day, the last second of a year, the
\* time of the tests and a time with one-digit month, day, hour, minute and
\* second; each in UTC and in a location one hour east
TimesTried ==
    [unix : {0, 951782400, 1735689599, FixedTime.unix, 1741511045},
     offset : {0, 3600}]

\* output directories in cleaned form, as the configuration and the tests
\* give them
BaseDirsTried ==
    {<<"", "tmp", "x">>, <<"", "tmp", "news_downloads">>, <<"data">>}

CountriesTried == {"", "us"}

PagesTried == 0..MaxPage

PathInit ==
    /\ OrchestratorIdle
    /\ NewProducer
    /\ calc = NoCalc
    /\ env = NoEnv
    /\ gen \in [baseOutputDir : BaseDirsTried, country : CountriesTried,
                page : PagesTried, fixedTime : TimesTried,
                fullOutputDir : {""}, fullJSONPath : {""}, called : {FALSE}]

\* FilePathGenerator.GenerateJSONFilePath: the time is the provider's
GenerateJSONFilePathCall ==
    /\ ~gen.called
    /\ LET now_ == gen.fixedTime
           r    == GenerateJSONFilePathWithTime(gen.baseOutputDir, gen.country,
                                                gen.page, now_)
       IN  gen' = [gen EXCEPT !.fullOutputDir = r.fullOutputDir,
                              !.fullJSONPath = r.fullJSONPath,
                              !.called = TRUE]
    /\ UNCHANGED <<pc, ctxDone, now, rl, currentPage, received, lastFetch>>
    /\ UNCHANGED <<orchestratorVars, producerVars, calc, env>>

PathNext == GenerateJSONFilePathCall

PathSpec == PathInit /\ [][PathNext]_vars

\* C31: the path is a function of base directory, timestamp, country and
\* page: the directory is {base}/{yyyy}/{mm} and the file in it is
\* {yyyy-mm-dd_HH-MM-SS}_{country}_page{N}.json; for 2025-08-15T12:00:00Z,
\* "us", page 2 and /tmp/x the path is
\* /tmp/x/2025/08/2025-08-15_12-00-00_us_page2.json; two page numbers with
\* the same other inputs give different paths.
C31_PathOfInputs ==
    gen.called =>
       LET c    == Civil(gen.fixedTime)
           base == PathText(gen.baseOutputDir)
           yyyy == ToString(c.year)
       IN  /\ c.year \in 1970..2038 /\ c.month \in 1..12 /\ c.day \in 1..31
           /\ c.hour \in 0..23 /\ c.minute \in 0..59 /\ c.second \in 0..59
           /\ Len(gen.fullOutputDir) = Len(base) + 8
           /\ gen.fullOutputDir
                = base \o "/" \o yyyy \o "/"
                  \o (IF c.month < 10 THEN "0" ELSE "") \o ToString(c.month)
           /\ Len(gen.fullJSONPath)
                = Len(gen.fullOutputDir) + 20 + Len(gen.country) + 11
                  + Len(ToString(gen.page))
           /\ gen.fullJSONPath
                = gen.fullOutputDir \o "/" \o FormatStamp(gen.fixedTime)
                  \o "_" \o gen.country \o "_page" \o ToString(gen.page)
                  \o ".json"
           /\ (/\ gen.fixedTime = FixedTime
               /\ gen.country = "us"
               /\ gen.page = 2
               /\ gen.baseOutputDir = <<"", "tmp", "x">>)
              => /\ gen.fullOutputDir = "/tmp/x/2025/08"
                 /\ gen.fullJSONPath
                      = "/tmp/x/2025/08/2025-08-15_12-00-00_us_page2.json"
           /\ (gen.fixedTime = [unix |-> 1741511045, offset |-> 0]
               /\ gen.country = "" /\ gen.page = 0
               /\ gen.baseOutputDir = <<"data">>)
              => gen.fullJSONPath
                   = "data/2025/03/2025-03-09_09-04-05__page0.json"
           /\ \A p \in PagesTried \ {gen.page} :
                 GenerateJSONFilePathWithTime(gen.baseOutputDir, gen.country, p,
                                              gen.fixedTime).fullJSONPath
                   # gen.fullJSONPath

C31_Witness ==
    /\ gen.called
    /\ gen.fixedTime = FixedTime
    /\ gen.country = "us"
    /\ gen.page = 2
    /\ gen.baseOutputDir = <<"", "tmp", "x">>
    /\ gen.fullJSONPath = "/tmp/x/2025/08/2025-08-15_12-00-00_us_page2.json"

(***************************************************************************)
(* LoadConfigFromEnv on its own: one call under each environment tried.    *)
(* The value of a numeric variable is the sequence of its characters, so   *)
(* that parsing it is a computation; an unset variable reads as empty.     *)
(***************************************************************************)
Digits == {"0", "1", "2", "3", "4", "5", "6", "7", "8", "9"}

DigitValue(c) == CHOOSE d \in 0..9 : ToString(d) = c

\* the value of a sequence of digits
RECURSIVE Decimal(_)
Decimal(ds) ==
    IF ds = <<>> THEN 0
    ELSE Decimal(SubSeq(ds, 1, Len(ds) - 1)) * 10 + DigitValue(ds[Len(ds)])

RECURSIVE StripZeros(_)
StripZeros(ds) ==
    IF ds # <<>> /\ Head(ds) = "0" THEN StripZeros(Tail(ds)) ELSE ds

\* the digits of the largest int have 19 places; the numerals tried are
\* shorter than 10 places or longer than 19
MaxIntPlaces == 19

\* strconv.Atoi: an optional sign and decimal digits; anything else is a
\* syntax error, a value no int holds a range error
Atoi(s) ==
    LET signed == s # <<>> /\ Head(s) \in {"+", "-"}
        ds     == IF signed THEN Tail(s) ELSE s
    IN  IF ds = <<>> \/ \E i \in 1..Len(ds) : ds[i] \notin Digits
        THEN [err |-> TRUE, value |-> 0]
        ELSE IF Len(StripZeros(ds)) > MaxIntPlaces
        THEN [err |-> TRUE, value |-> 0]
        ELSE [err |-> FALSE,
              value |-> IF signed /\ Head(s) = "-" THEN 0 - Decimal(ds)
                        ELSE Decimal(ds)]

\* parseIntFromEnv
parseIntFromEnv(value) ==
    IF value = <<>> THEN [err |-> TRUE, value |-> 0] ELSE Atoi(value)

\* a timeout of zero taken from the environment
TimeoutAccepted_Zero(parsed) == ~parsed.err /\ parsed.value >= 0

\* err == nil && parsed > 0, for NEWS_TIMEOUT
TimeoutAccepted(parsed) == ~parsed.err /\ parsed.value > 0

LoadConfigFromEnv(e) ==
    LET d       == DefaultConfig
        size    == parseIntFromEnv(e.NEWS_MAX_PAGE_SIZE)
        delay   == parseIntFromEnv(e.NEWS_RATE_LIMIT_DELAY)
        timeout == parseIntFromEnv(e.NEWS_TIMEOUT)
        retries == parseIntFromEnv(e.NEWS_MAX_RETRIES)
    IN  [maxPageSize |->
            IF e.NEWS_MAX_PAGE_SIZE # <<>> /\ ~size.err /\ size.value > 0
               /\ size.value <= 100
            THEN size.value ELSE d.maxPageSize,
         baseURL |->
            IF e.NEWS_BASE_URL # "" THEN e.NEWS_BASE_URL ELSE d.baseURL,
         defaultRateLimitDelaySeconds |->
            IF e.NEWS_RATE_LIMIT_DELAY # <<>> /\ ~delay.err /\ delay.value > 0
            THEN delay.value ELSE d.defaultRateLimitDelaySeconds,
         kafkaBroker |->
            IF e.KAFKA_BROKER # "" THEN e.KAFKA_BROKER ELSE d.kafkaBroker,
         kafkaTopic |->
            IF e.KAFKA_TOPIC # "" THEN e.KAFKA_TOPIC ELSE d.kafkaTopic,
         timeoutSeconds |->
            IF e.NEWS_TIMEOUT # <<>> /\ TimeoutAccepted(timeout)
            THEN timeout.value ELSE d.timeoutSeconds,
         maxRetries |->
            IF e.NEWS_MAX_RETRIES # <<>> /\ ~retries.err /\ retries.value >= 0
            THEN retries.value ELSE d.maxRetries,
         outputDir |->
            IF e.NEWS_OUTPUT_DIR # "" THEN e.NEWS_OUTPUT_DIR ELSE d.outputDir]

\* the values tried for a numeric variable: unset, not a number, a
\* fraction, negative, zero, positive, signed positive, beyond an int
NumeralsTried ==
    {<<>>, <<"a", "b", "c">>, <<"4", "2", ".", "5">>, <<"-", "1">>, <<"0">>,
     <<"7">>, <<"+", "4", "5">>,
     <<"9", "9", "9", "9", "9", "9", "9", "9", "9", "9",
       "9", "9", "9", "9", "9", "9", "9", "9", "9", "9">>}

\* for the page size, both sides of the upper limit as well
PageSizeNumeralsTried ==
    NumeralsTried \cup {<<"1", "0", "0">>, <<"1", "0", "1">>}

EnvsTried ==
    [NEWS_MAX_PAGE_SIZE : PageSizeNumeralsTried,
     NEWS_BASE_URL : {"", "http://localhost:8080"},
     NEWS_RATE_LIMIT_DELAY : NumeralsTried,
     KAFKA_BROKER : {"", "broker:9093"},
     KAFKA_TOPIC : {"", "custom_topic"},
     NEWS_TIMEOUT : NumeralsTried,
     NEWS_MAX_RETRIES : NumeralsTried,
     NEWS_OUTPUT_DIR : {"", "/custom/output"}]

ConfigInit ==
    /\ OrchestratorIdle
    /\ NewProducer
    /\ calc = NoCalc
    /\ gen = NoGen
    /\ env \in EnvsTried

\* cfg := DefaultConfig(), the overrides, return cfg
LoadConfigFromEnvCall ==
    /\ pc = "idle"
    /\ cfg = DefaultConfig
    /\ cfg' = LoadConfigFromEnv(env)
    /\ pc' = "configured"
    /\ UNCHANGED <<req, publisher, ctxDone, now, rl, currentPage, totalPages,
                   result, newsResp, retryAfter, retErr, retResult, fetches,
                   saves, publishes, cancelSeen, filesAtCancel, cancelledAt,
                   received, lastFetch, auxVars>>

ConfigNext == LoadConfigFromEnvCall

ConfigSpec == ConfigInit /\ [][ConfigNext]_vars

\* the integer a variable's value stands for when it is one of the plain
\* numerals tried
Number(n) == [number |-> TRUE, value |-> n]

NotANumber == [number |-> FALSE, value |-> 0]

IntendedValue(s) ==
    IF s = <<"-", "1">> THEN Number(-1)
    ELSE IF s = <<"0">> THEN Number(0)
    ELSE IF s = <<"7">> THEN Number(7)
    ELSE IF s = <<"+", "4", "5">> THEN Number(45)
    ELSE IF s = <<"1", "0", "0">> THEN Number(100)
    ELSE IF s = <<"1", "0", "1">> THEN Number(101)
    ELSE NotANumber

\* C40: LoadConfigFromEnv returns a configuration that passes
\* Config.Validate under every environment: a numeric variable that does
\* not parse or is out of range (page size outside 1..100, timeout <= 0,
\* retries < 0, rate-limit delay <= 0) and an empty string variable leave
\* the default, and a valid value overrides its own field only.
C40_EnvConfigIsValid ==
    pc = "configured" =>
       LET d       == DefaultConfig
           size    == IntendedValue(env.NEWS_MAX_PAGE_SIZE)
           delay   == IntendedValue(env.NEWS_RATE_LIMIT_DELAY)
           timeout == IntendedValue(env.NEWS_TIMEOUT)
           retries == IntendedValue(env.NEWS_MAX_RETRIES)
       IN  /\ Config_Validate(cfg)
           /\ cfg.maxPageSize
                = IF size.number /\ size.value \in 1..100 THEN size.value
                  ELSE d.maxPageSize
           /\ cfg.defaultRateLimitDelaySeconds
                = IF delay.number /\ delay.value > 0 THEN delay.value
                  ELSE d.defaultRateLimitDelaySeconds
           /\ cfg.timeoutSeconds
                = IF timeout.number /\ timeout.value > 0 THEN timeout.value
                  ELSE d.timeoutSeconds
           /\ cfg.maxRetries
                = IF retries.number /\ retries.value >= 0 THEN retries.value
                  ELSE d.maxRetries
           /\ cfg.baseURL
                = IF env.NEWS_BASE_URL = "" THEN d.baseURL
                  ELSE env.NEWS_BASE_URL
           /\ cfg.kafkaBroker
                = IF env.KAFKA_BROKER = "" THEN d.kafkaBroker
                  ELSE env.KAFKA_BROKER
           /\ cfg.kafkaTopic
                = IF env.KAFKA_TOPIC = "" THEN d.kafkaTopic
                  ELSE env.KAFKA_TOPIC
           /\ cfg.outputDir
                = IF env.NEWS_OUTPUT_DIR = "" THEN d.outputDir
                  ELSE env.NEWS_OUTPUT_DIR

C40_Witness ==
    /\ pc = "configured"
    /\ env.NEWS_MAX_PAGE_SIZE = <<"1", "0", "0">>
    /\ env.NEWS_TIMEOUT = <<"0">>
    /\ env.NEWS_MAX_RETRIES = <<"0">>
    /\ env.NEWS_RATE_LIMIT_DELAY = <<"-", "1">>
    /\ env.KAFKA_TOPIC = ""
    /\ env.NEWS_OUTPUT_DIR = "/custom/output"
    /\ cfg.maxPageSize = 100
    /\ cfg.timeoutSeconds = DefaultConfig.timeoutSeconds
    /\ cfg.maxRetries = 0
    /\ cfg.defaultRateLimitDelaySeconds = DefaultDelaySeconds
    /\ cfg.kafkaTopic = DefaultConfig.kafkaTopic
    /\ cfg.outputDir = "/custom/output"

(***************************************************************************)
(* Runs whose waits complete: every step of the run other than the         *)
(* caller's cancellation is taken when it stays possible.  The provider    *)
(* answers 429 at most MaxRateLimits times in a run.                       *)
(***************************************************************************)
Advance ==
    \/ Start
    \/ LoopExit
    \/ LoopCancelled
    \/ FetchStart
    \/ RLWaitElapsed
    \/ RLWaitCancelled
    \/ FetchReturn
    \/ RetryElapsed
    \/ RetryCancelled
    \/ SavePage
    \/ PublishStart
    \/ PublishDelivered
    \/ PublishCancelled
    \/ PublishTimedOut
    \/ DelayElapsed
    \/ DelayCancelled

FairSpec == Spec /\ WF_vars(Advance)

\* every run returns
C32_Returns == <>Done

\* a run returns normally exactly when currentPage > totalPages
C32_NormalExit == Done => (retErr = "none" <=> currentPage > totalPages)

\* endTime and duration are stamped on the normal exit and on no other
C32_Stamped ==
    IF Done /\ retErr = "none"
    THEN /\ result.endTime = now
         /\ result.duration = result.endTime - result.startTime
         /\ result.duration >= 0
    ELSE /\ result.endTime = ZeroTime
         /\ result.duration = 0

\* every answer of the provider so far was a 429 and the caller has not
\* cancelled
OnlyRateLimited ==
    /\ Validate(req) = "ok"
    /\ pc # "start"
    /\ ~ctxDone
    /\ \A i \in 1..Len(fetches) : fetches[i].outcome \in {"ratelimit", "pending"}

\* under a provider that answers nothing but 429 the run does not return
\* and stays on its first page
C32_RateLimitedForever == OnlyRateLimited => (~Done /\ currentPage = req.startPage)

\* C32: when the provider answers 429 finitely often and every wait
\* completes, every run returns; it returns normally exactly when
\* currentPage > totalPages, and endTime and duration are stamped on that
\* exit only (duration = endTime - startTime >= 0); a run that is answered
\* nothing but 429 and is not cancelled does not return and does not
\* advance currentPage.
C32_TerminationAndRetry ==
    /\ C32_Returns
    /\ [](C32_NormalExit /\ C32_Stamped /\ C32_RateLimitedForever)

====
